---------------------------- MODULE Spec2Model ----------------------------
(***************************************************************************)
(* A model of the GUS housing-cost ETL: the validator (src/src/validator.py)*)
(* and the pipeline with its dimension and fact loaders (src/src/etl.py)   *)
(* over the storage collaborator (src/src/database.py).                    *)
(*                                                                         *)
(* Python values are tagged records, so that None, a missing dict key, a   *)
(* string and a number stay distinct.  A string is a sequence of           *)
(* characters, each character a one-element TLA+ string.                   *)
(***************************************************************************)
EXTENDS Integers, Sequences, FiniteSets, TLC

VARIABLES
    db,      \* the storage: the tables of schema gus and their id sequences
    pc,      \* pc[p]: where pipeline p stands inside ETLPipeline.run
    loc,     \* loc[p]: the local variables of pipeline p's call of run
    errors,  \* DataValidator.errors (self.errors)
    call,    \* the latest direct method call: its name, arguments and return
    ncalls   \* how many calls were made so far (bounds the behaviours)

vars == <<db, pc, loc, errors, call, ncalls>>

-----------------------------------------------------------------------------
(* Bounds of the model.                                                    *)

MaxBatch == 2
MaxConcurrentBatch == 1
MaxCalls == 3
MaxDirect == 1
MaxRuns == 1
MaxVersions == 2
MaxPages == 3
MaxTotal == 3
PageSize == 2

-----------------------------------------------------------------------------
(* Python values.                                                          *)

None == [tag |-> "none"]
Absent == [tag |-> "absent"]
Str(s) == [tag |-> "str", s |-> s]
Num(i) == [tag |-> "int", i |-> i]

IsNone(v) == v.tag = "none"
IsStr(v) == v.tag = "str"
IsNum(v) == v.tag = "int"

\* dict.get(key): a missing key reads as None
Get(v) == IF v.tag = "absent" THEN None ELSE v

\* dict.get(key, default)
GetOr(v, default) == IF v.tag = "absent" THEN default ELSE v

Digits == <<"0", "1", "2", "3", "4", "5", "6", "7", "8", "9">>
DigitSet == {Digits[i] : i \in 1..10}
Whitespace == {" ", "\n", "\t"}

DigitVal(c) == (CHOOSE i \in 1..10 : Digits[i] = c) - 1

RECURSIVE NatToStr(_)
NatToStr(n) == IF n < 10 THEN <<Digits[n + 1]>>
               ELSE NatToStr(n \div 10) \o <<Digits[(n % 10) + 1]>>

\* str(v) of Python
PyStr(v) == CASE v.tag = "str" -> v.s
              [] v.tag = "int" -> IF v.i < 0 THEN <<"-">> \o NatToStr(-v.i)
                                  ELSE NatToStr(v.i)
              [] OTHER -> <<"N", "o", "n", "e">>

RECURSIVE Zeros(_)
Zeros(n) == IF n <= 0 THEN <<>> ELSE <<"0">> \o Zeros(n - 1)

\* str.zfill(width): zeros go after a leading sign
Zfill(s, width) ==
    IF Len(s) >= width THEN s
    ELSE IF Len(s) > 0 /\ s[1] \in {"+", "-"}
         THEN <<s[1]>> \o Zeros(width - Len(s)) \o SubSeq(s, 2, Len(s))
         ELSE Zeros(width - Len(s)) \o s

RECURSIVE LStrip(_)
LStrip(s) == IF Len(s) > 0 /\ s[1] \in Whitespace THEN LStrip(Tail(s)) ELSE s

RECURSIVE RStrip(_)
RStrip(s) == IF Len(s) > 0 /\ s[Len(s)] \in Whitespace
             THEN RStrip(SubSeq(s, 1, Len(s) - 1)) ELSE s

\* str.strip()
Strip(s) == RStrip(LStrip(s))

AllDigits(s) == \A i \in 1..Len(s) : s[i] \in DigitSet

RECURSIVE DigitsToNat(_)
DigitsToNat(s) == IF Len(s) = 0 THEN 0
                  ELSE 10 * DigitsToNat(SubSeq(s, 1, Len(s) - 1)) + DigitVal(s[Len(s)])

\* the digits of a decimal literal after its optional sign
Unsigned(s) == IF Len(s) > 0 /\ s[1] \in {"+", "-"} THEN Tail(s) ELSE s

\* int(v) of Python: "raises" stands for TypeError or ValueError
PyInt(v) ==
    CASE v.tag = "int" -> [raises |-> FALSE, i |-> v.i]
      [] v.tag = "str" ->
            LET t == Strip(v.s)
                d == Unsigned(t)
            IN  IF Len(d) > 0 /\ AllDigits(d)
                THEN [raises |-> FALSE,
                      i |-> IF t[1] = "-" THEN -DigitsToNat(d) ELSE DigitsToNat(d)]
                ELSE [raises |-> TRUE, i |-> 0]
      [] OTHER -> [raises |-> TRUE, i |-> 0]

\* bool(v) of Python
Truthy(v) == CASE v.tag = "str" -> Len(v.s) > 0
               [] v.tag = "int" -> v.i # 0
               [] OTHER -> FALSE

-----------------------------------------------------------------------------
(* src/src/validator.py                                                    *)

\* DataValidator.VALID_POZIOMY, VALID_KATEGORIE
VALID_POZIOMY == {"POLSKA", "WOJEWODZTWO", "POWIAT"}
VALID_KATEGORIE == {"PUBLICZNE", "SPOLDZIELCZE", "SPOLECZNE", "PRYWATNE"}

MIN_ROK == 2000
MAX_ROK == 2100

\* KOD_GUS_PATTERN = re.compile(r'^\d{7}$'); "$" also matches before a final newline
KOD_GUS_PATTERN(s) ==
    \/ Len(s) = 7 /\ AllDigits(s)
    \/ Len(s) = 8 /\ AllDigits(SubSeq(s, 1, 7)) /\ s[8] = "\n"

ValidationError(record, error_type, field, message, raw_value) ==
    [record_data |-> record,
     error_type |-> error_type,
     error_field |-> field,
     error_message |-> message,
     raw_value |-> IF IsNone(raw_value) THEN None ELSE Str(PyStr(raw_value))]

\* DataValidator._add_error: self.errors.append(ValidationError(...))
_add_error(errs, record, error_type, field, message, raw_value) ==
    Append(errs, ValidationError(record, error_type, field, message, raw_value))

\* validate_raw_gus_record with the two error kinds of the year exchanged
ValidateRawYearKindsSwapped(errs, record) ==
    LET kod == GetOr(record.kod_jednostki, Str(<<>>))
        nazwa == Get(record.nazwa_jednostki)
        rok == Get(record.rok)
        wartosc == Get(record.wartosc)
        rok_int == PyInt(rok)
    IN  IF ~KOD_GUS_PATTERN(Zfill(PyStr(kod), 7))
        THEN [ok |-> FALSE,
              errors |-> _add_error(errs, record, "INVALID_KOD_GUS", "kod_jednostki",
                                    "Nieprawidlowy format kodu GUS", kod)]
        ELSE IF ~Truthy(nazwa) \/ Strip(PyStr(nazwa)) = <<>>
        THEN [ok |-> FALSE,
              errors |-> _add_error(errs, record, "NULL_VALUE", "nazwa_jednostki",
                                    "Brak nazwy jednostki", nazwa)]
        ELSE IF rok_int.raises
        THEN [ok |-> FALSE,
              errors |-> _add_error(errs, record, "INVALID_ROK", "rok",
                                    "Rok poza zakresem", rok)]
        ELSE IF ~(MIN_ROK <= rok_int.i /\ rok_int.i <= MAX_ROK)
        THEN [ok |-> FALSE,
              errors |-> _add_error(errs, record, "INVALID_DATA_TYPE", "rok",
                                    "Nieprawidlowy rok", rok)]
        ELSE IF IsNone(wartosc)
        THEN [ok |-> FALSE,
              errors |-> _add_error(errs, record, "NULL_VALUE", "wartosc",
                                    "Brak wartosci", wartosc)]
        ELSE [ok |-> TRUE, errors |-> errs]

\* DataValidator.validate_raw_gus_record: the verdict and self.errors after it
validate_raw_gus_record(errs, record) ==
    LET kod == GetOr(record.kod_jednostki, Str(<<>>))
        nazwa == Get(record.nazwa_jednostki)
        rok == Get(record.rok)
        wartosc == Get(record.wartosc)
        rok_int == PyInt(rok)
    IN  IF ~KOD_GUS_PATTERN(Zfill(PyStr(kod), 7))
        THEN [ok |-> FALSE,
              errors |-> _add_error(errs, record, "INVALID_KOD_GUS", "kod_jednostki",
                                    "Nieprawidlowy format kodu GUS", kod)]
        ELSE IF ~Truthy(nazwa) \/ Strip(PyStr(nazwa)) = <<>>
        THEN [ok |-> FALSE,
              errors |-> _add_error(errs, record, "NULL_VALUE", "nazwa_jednostki",
                                    "Brak nazwy jednostki", nazwa)]
        ELSE IF rok_int.raises
        THEN [ok |-> FALSE,
              errors |-> _add_error(errs, record, "INVALID_DATA_TYPE", "rok",
                                    "Nieprawidlowy rok", rok)]
        ELSE IF ~(MIN_ROK <= rok_int.i /\ rok_int.i <= MAX_ROK)
        THEN [ok |-> FALSE,
              errors |-> _add_error(errs, record, "INVALID_ROK", "rok",
                                    "Rok poza zakresem", rok)]
        ELSE IF IsNone(wartosc)
        THEN [ok |-> FALSE,
              errors |-> _add_error(errs, record, "NULL_VALUE", "wartosc",
                                    "Brak wartosci", wartosc)]
        ELSE [ok |-> TRUE, errors |-> errs]

\* the loop of validate_raw_batch over records[i..], valid_records and
\* self.errors threaded through it
RECURSIVE RawBatchLoop(_, _, _, _)
RawBatchLoop(records, i, valid_records, errs) ==
    IF i > Len(records) THEN [valid_records |-> valid_records, errors |-> errs]
    ELSE LET r == validate_raw_gus_record(errs, records[i])
         IN  RawBatchLoop(records, i + 1,
                          IF r.ok THEN Append(valid_records, records[i])
                          ELSE valid_records,
                          r.errors)

\* ValidationResult and its derived properties; success_rate is the exact
\* quotient num/den of the float the code computes
ValidationResult(valid_records, errs) ==
    LET total == Len(valid_records) + Len(errs)
    IN  [valid_records |-> valid_records,
         errors |-> errs,
         total_input |-> total,
         valid_count |-> Len(valid_records),
         error_count |-> Len(errs),
         success_rate |-> IF total = 0 THEN [num |-> 0, den |-> 1]
                          ELSE [num |-> Len(valid_records) * 100, den |-> total]]

\* DataValidator.validate_raw_batch: it starts from self.errors = []
ValidateRawBatchKeepErrors(errs, records) ==
    LET r == RawBatchLoop(records, 1, <<>>, errs)
    IN  [result |-> ValidationResult(r.valid_records, r.errors), errors |-> r.errors]

validate_raw_batch(errs, records) ==
    LET r == RawBatchLoop(records, 1, <<>>, <<>>)
    IN  [result |-> ValidationResult(r.valid_records, r.errors), errors |-> r.errors]

\* DataValidator.REQUIRED_FIELDS_JEDNOSTKA
REQUIRED_FIELDS_JEDNOSTKA == <<"kod_gus", "nazwa", "poziom">>

\* DataValidator._check_nulls: the first required field that is None or a
\* blank string is reported, the fields after it are not looked at
RECURSIVE CheckNullsLoop(_, _, _, _)
CheckNullsLoop(errs, record, required_fields, k) ==
    IF k > Len(required_fields) THEN [ok |-> TRUE, errors |-> errs]
    ELSE LET field == required_fields[k]
             value == Get(record[field])
         IN  IF IsNone(value) \/ (IsStr(value) /\ Strip(value.s) = <<>>)
             THEN [ok |-> FALSE,
                   errors |-> _add_error(errs, record, "NULL_VALUE", field,
                                         "Pole jest puste lub null", value)]
             ELSE CheckNullsLoop(errs, record, required_fields, k + 1)

_check_nulls(errs, record, required_fields) ==
    CheckNullsLoop(errs, record, required_fields, 1)

\* DataValidator._check_kod_gus: the pattern is matched on str(kod) as given
_check_kod_gus(errs, record) ==
    LET kod == GetOr(record.kod_gus, Str(<<>>))
    IN  IF ~KOD_GUS_PATTERN(PyStr(kod))
        THEN [ok |-> FALSE,
              errors |-> _add_error(errs, record, "INVALID_KOD_GUS", "kod_gus",
                                    "Nieprawidlowy format kodu GUS (wymagane 7 cyfr)",
                                    kod)]
        ELSE [ok |-> TRUE, errors |-> errs]

\* DataValidator._check_poziom
_check_poziom(errs, record) ==
    LET poziom == GetOr(record.poziom, Str(<<>>))
    IN  IF poziom \notin {Str(<<v>>) : v \in VALID_POZIOMY}
        THEN [ok |-> FALSE,
              errors |-> _add_error(errs, record, "INVALID_POZIOM", "poziom",
                                    "Nieprawidlowy poziom", poziom)]
        ELSE [ok |-> TRUE, errors |-> errs]

\* DataValidator.validate_jednostka: the verdict and self.errors after it
validate_jednostka(errs, record) ==
    LET nulls == _check_nulls(errs, record, REQUIRED_FIELDS_JEDNOSTKA)
        kod_gus == _check_kod_gus(errs, record)
    IN  IF ~nulls.ok THEN nulls
        ELSE IF ~kod_gus.ok THEN kod_gus
        ELSE _check_poziom(errs, record)

\* the loop of validate_batch for record_type 'jednostka'
RECURSIVE BatchLoop(_, _, _, _)
BatchLoop(records, i, valid_records, errs) ==
    IF i > Len(records) THEN [valid_records |-> valid_records, errors |-> errs]
    ELSE LET r == validate_jednostka(errs, records[i])
         IN  BatchLoop(records, i + 1,
                       IF r.ok THEN Append(valid_records, records[i])
                       ELSE valid_records,
                       r.errors)

\* DataValidator.validate_batch(records, 'jednostka'): self.errors = [],
\* the loop, ValidationResult(valid_records, self.errors.copy())
validate_batch(errs, records) ==
    LET r == BatchLoop(records, 1, <<>>, <<>>)
    IN  [result |-> ValidationResult(r.valid_records, r.errors), errors |-> r.errors]

-----------------------------------------------------------------------------
(* The storage (src/src/database.py) and the SQL statements of             *)
(* src/src/etl.py.  A table is the set of its rows; every statement is its *)
(* own transaction (Database.execute and fetch_one commit per call).  An   *)
(* id column is a serial: ids start at 1 and INSERT draws the next value   *)
(* of the table's sequence also when ON CONFLICT then takes the other arm. *)

Tables == {"log_import", "dim_jednostka", "dim_typ_kosztu", "dim_okres",
           "fact_koszty", "validation_errors", "data_quality_report"}

EmptyDb == [log_import |-> {}, dim_jednostka |-> {}, dim_typ_kosztu |-> {},
            dim_okres |-> {}, fact_koszty |-> {}, validation_errors |-> {},
            data_quality_report |-> {}, seq |-> [t \in Tables |-> 0]]

NextVal(d, t) == d.seq[t] + 1

\* Database.fetch_one: result.fetchone(), the first row or None
fetch_one(rows) ==
    IF rows = {} THEN None
    ELSE CHOOSE r \in rows : \A q \in rows : r.id <= q.id

\* a statement's outcome: the storage after it, the row it returns, and
\* the error it raises ("" when it raises none)
Outcome(d, row) == [db |-> d, row |-> row, error |-> ""]

\* DatabaseQueries.get_dim_jednostka / get_dim_typ_kosztu / get_dim_okres
get_dim_jednostka(d, kod_gus) ==
    fetch_one({r \in d.dim_jednostka : r.kod_gus = kod_gus})

get_dim_typ_kosztu(d, kod) ==
    fetch_one({r \in d.dim_typ_kosztu : r.kod = kod})

get_dim_okres(d, rok) ==
    fetch_one({r \in d.dim_okres : r.rok = rok})

\* "if existing", "if result": a fetched row is a non-empty dict, None is not
Found(row) == "id" \in DOMAIN row

\* result.get("id") if result else None
IdOf(row) == IF Found(row) THEN Num(row.id) ELSE None

get_dim_jednostka_id(d, kod_gus) == IdOf(get_dim_jednostka(d, kod_gus))
get_dim_typ_kosztu_id(d, kod) == IdOf(get_dim_typ_kosztu(d, kod))
get_dim_okres_id(d, rok) == IdOf(get_dim_okres(d, rok))

\* INSERT INTO dim_jednostka ... ON CONFLICT (kod_gus)
\*   DO UPDATE SET nazwa = EXCLUDED.nazwa RETURNING id
InsertJednostkaPlain(d, data) ==
    LET id == NextVal(d, "dim_jednostka")
        d1 == [d EXCEPT !.seq["dim_jednostka"] = id]
    IN  IF \E r \in d.dim_jednostka : r.kod_gus = data.kod_gus
        THEN [db |-> d1, row |-> None, error |-> "UniqueViolation"]
        ELSE Outcome([d1 EXCEPT !.dim_jednostka = @ \cup
                        {[id |-> id, kod_gus |-> data.kod_gus, nazwa |-> data.nazwa,
                          poziom |-> data.poziom,
                          kod_wojewodztwa |-> data.kod_wojewodztwa]}],
                     [id |-> id])

InsertJednostka(d, data) ==
    LET id == NextVal(d, "dim_jednostka")
        d1 == [d EXCEPT !.seq["dim_jednostka"] = id]
        old == {r \in d.dim_jednostka : r.kod_gus = data.kod_gus}
    IN  IF old # {}
        THEN Outcome([d1 EXCEPT !.dim_jednostka = (@ \ old) \cup
                        {[r EXCEPT !.nazwa = data.nazwa] : r \in old}],
                     [id |-> fetch_one(old).id])
        ELSE Outcome([d1 EXCEPT !.dim_jednostka = @ \cup
                        {[id |-> id, kod_gus |-> data.kod_gus, nazwa |-> data.nazwa,
                          poziom |-> data.poziom,
                          kod_wojewodztwa |-> data.kod_wojewodztwa]}],
                     [id |-> id])

\* INSERT INTO dim_typ_kosztu ... ON CONFLICT (kod)
\*   DO UPDATE SET nazwa = EXCLUDED.nazwa RETURNING id
InsertTypKosztu(d, data) ==
    LET id == NextVal(d, "dim_typ_kosztu")
        d1 == [d EXCEPT !.seq["dim_typ_kosztu"] = id]
        old == {r \in d.dim_typ_kosztu : r.kod = data.kod}
    IN  IF old # {}
        THEN Outcome([d1 EXCEPT !.dim_typ_kosztu = (@ \ old) \cup
                        {[r EXCEPT !.nazwa = data.nazwa] : r \in old}],
                     [id |-> fetch_one(old).id])
        ELSE Outcome([d1 EXCEPT !.dim_typ_kosztu = @ \cup
                        {[id |-> id, kod |-> data.kod, nazwa |-> data.nazwa,
                          kategoria |-> data.kategoria]}],
                     [id |-> id])

\* INSERT INTO dim_okres (rok) ... ON CONFLICT (rok) DO NOTHING RETURNING id
InsertOkres(d, rok) ==
    LET id == NextVal(d, "dim_okres")
        d1 == [d EXCEPT !.seq["dim_okres"] = id]
    IN  IF \E r \in d.dim_okres : r.rok = rok
        THEN Outcome(d1, None)
        ELSE Outcome([d1 EXCEPT !.dim_okres = @ \cup {[id |-> id, rok |-> rok]}],
                     [id |-> id])

\* INSERT INTO fact_koszty ... ON CONFLICT (jednostka_id, typ_kosztu_id, okres_id)
\*   DO UPDATE SET wartosc = EXCLUDED.wartosc, updated_at = CURRENT_TIMESTAMP
SameFactKey(r, f) ==
    /\ r.jednostka_id = f.jednostka_id
    /\ r.typ_kosztu_id = f.typ_kosztu_id
    /\ r.okres_id = f.okres_id

InsertFactDoNothing(d, f) ==
    LET id == NextVal(d, "fact_koszty")
        d1 == [d EXCEPT !.seq["fact_koszty"] = id]
    IN  IF \E r \in d.fact_koszty : SameFactKey(r, f)
        THEN Outcome(d1, None)
        ELSE Outcome([d1 EXCEPT !.fact_koszty = @ \cup {[f EXCEPT !.id = id]}], None)

\* the upsert with import_id = EXCLUDED.import_id in its DO UPDATE SET
InsertFactNewImport(d, f) ==
    LET id == NextVal(d, "fact_koszty")
        d1 == [d EXCEPT !.seq["fact_koszty"] = id]
        old == {r \in d.fact_koszty : SameFactKey(r, f)}
    IN  IF old # {}
        THEN Outcome([d1 EXCEPT !.fact_koszty = (@ \ old) \cup
                        {[r EXCEPT !.wartosc = f.wartosc, !.import_id = f.import_id] :
                            r \in old}], None)
        ELSE Outcome([d1 EXCEPT !.fact_koszty = @ \cup {[f EXCEPT !.id = id]}], None)

InsertFact(d, f) ==
    LET id == NextVal(d, "fact_koszty")
        d1 == [d EXCEPT !.seq["fact_koszty"] = id]
        old == {r \in d.fact_koszty : SameFactKey(r, f)}
    IN  IF old # {}
        THEN Outcome([d1 EXCEPT !.fact_koszty = (@ \ old) \cup
                        {[r EXCEPT !.wartosc = f.wartosc] : r \in old}], None)
        ELSE Outcome([d1 EXCEPT !.fact_koszty = @ \cup {[f EXCEPT !.id = id]}], None)

-----------------------------------------------------------------------------
(* src/src/etl.py: the dimension and fact loaders.                         *)

\* ETLPipeline._upsert_jednostka / _upsert_typ_kosztu / _upsert_okres:
\* the lookup, then the insert when nothing was found
UpsertJednostkaAlwaysNew(d, data) ==
    LET id == NextVal(d, "dim_jednostka")
    IN  Outcome([d EXCEPT !.seq["dim_jednostka"] = id,
                          !.dim_jednostka = @ \cup
                            {[id |-> id, kod_gus |-> data.kod_gus, nazwa |-> data.nazwa,
                              poziom |-> data.poziom,
                              kod_wojewodztwa |-> data.kod_wojewodztwa]}],
                [id |-> id])

\* the INSERT ... ON CONFLICT statement run without the lookup before it
UpsertJednostkaNoLookup(d, data) == InsertJednostka(d, data)

_upsert_jednostka(d, data) ==
    LET existing == get_dim_jednostka(d, data.kod_gus)
    IN  IF Found(existing) THEN Outcome(d, [id |-> existing.id])
        ELSE InsertJednostka(d, data)

_upsert_typ_kosztu(d, data) ==
    LET existing == get_dim_typ_kosztu(d, data.kod)
    IN  IF Found(existing) THEN Outcome(d, [id |-> existing.id])
        ELSE InsertTypKosztu(d, data)

_upsert_okres(d, rok) ==
    LET existing == get_dim_okres(d, rok)
    IN  IF Found(existing) THEN Outcome(d, [id |-> existing.id])
        ELSE InsertOkres(d, rok)

\* the in-batch maps of _load_dimensions: a dict keeps the order in which
\* its keys were first set, and "if kod not in jednostki" keeps the first
\* occurrence's attributes
RECURSIVE Jednostki(_, _, _)
Jednostki(records, i, acc) ==
    IF i > Len(records) THEN acc
    ELSE LET r == records[i]
         IN  Jednostki(records, i + 1,
                IF \E j \in 1..Len(acc) : acc[j].kod_gus = r.kod_jednostki THEN acc
                ELSE Append(acc, [kod_gus |-> r.kod_jednostki,
                                  nazwa |-> r.nazwa_jednostki,
                                  poziom |-> r.poziom,
                                  kod_wojewodztwa |-> Get(r.kod_wojewodztwa)]))

RECURSIVE TypyKosztow(_, _, _)
TypyKosztow(records, i, acc) ==
    IF i > Len(records) THEN acc
    ELSE LET r == records[i]
         IN  TypyKosztow(records, i + 1,
                IF \E j \in 1..Len(acc) : acc[j].kod = r.typ_kosztu_kod THEN acc
                ELSE Append(acc, [kod |-> r.typ_kosztu_kod,
                                  nazwa |-> r.typ_kosztu_nazwa,
                                  kategoria |-> r.kategoria]))

Okresy(records) == {records[i].rok : i \in 1..Len(records)}

\* the orders in which "for rok in okresy" may walk the set
Orders(S) == {o \in [1..Cardinality(S) -> S] : \A x \in S : \E i \in DOMAIN o : o[i] = x}

\* the upserts of _load_dimensions without its loop over the periods
DimensionWorkNoOkresy(records, okres_order) ==
    LET js == Jednostki(records, 1, <<>>)
        ts == TypyKosztow(records, 1, <<>>)
    IN  [i \in 1..Len(js) |-> [table |-> "dim_jednostka", data |-> js[i]]]
        \o [i \in 1..Len(ts) |-> [table |-> "dim_typ_kosztu", data |-> ts[i]]]

\* the upserts _load_dimensions makes, in its order: units, cost types, periods
DimensionWork(records, okres_order) ==
    LET js == Jednostki(records, 1, <<>>)
        ts == TypyKosztow(records, 1, <<>>)
    IN  [i \in 1..Len(js) |-> [table |-> "dim_jednostka", data |-> js[i]]]
        \o [i \in 1..Len(ts) |-> [table |-> "dim_typ_kosztu", data |-> ts[i]]]
        \o [i \in 1..Len(okres_order) |->
                [table |-> "dim_okres", data |-> okres_order[i]]]

Upsert(d, w) ==
    CASE w.table = "dim_jednostka" -> _upsert_jednostka(d, w.data)
      [] w.table = "dim_typ_kosztu" -> _upsert_typ_kosztu(d, w.data)
      [] OTHER -> _upsert_okres(d, w.data)

RECURSIVE RunUpserts(_, _, _)
RunUpserts(d, work, i) ==
    IF i > Len(work) THEN d ELSE RunUpserts(Upsert(d, work[i]).db, work, i + 1)

\* ETLPipeline._load_dimensions with every storage call succeeding
_load_dimensions(d, records, okres_order) ==
    RunUpserts(d, DimensionWork(records, okres_order), 1)

\* one round of the loop of _load_facts: the three lookups, the skip, the upsert
Resolves(d, r) ==
    /\ Truthy(get_dim_jednostka_id(d, r.kod_jednostki))
    /\ Truthy(get_dim_typ_kosztu_id(d, r.typ_kosztu_kod))
    /\ Truthy(get_dim_okres_id(d, r.rok))

FactOf(d, r, import_id) ==
    [id |-> 0,
     jednostka_id |-> get_dim_jednostka_id(d, r.kod_jednostki).i,
     typ_kosztu_id |-> get_dim_typ_kosztu_id(d, r.typ_kosztu_kod).i,
     okres_id |-> get_dim_okres_id(d, r.rok).i,
     wartosc |-> r.wartosc,
     import_id |-> import_id]

LoadFactCountAll(st, r, import_id) ==
    IF ~Resolves(st.db, r) THEN [st EXCEPT !.inserted = @ + 1]
    ELSE [db |-> InsertFact(st.db, FactOf(st.db, r, import_id)).db,
          inserted |-> st.inserted + 1]

LoadFact(st, r, import_id) ==
    IF ~Resolves(st.db, r) THEN st
    ELSE [db |-> InsertFact(st.db, FactOf(st.db, r, import_id)).db,
          inserted |-> st.inserted + 1]

RECURSIVE LoadFactsLoop(_, _, _, _)
LoadFactsLoop(st, records, i, import_id) ==
    IF i > Len(records) THEN st
    ELSE LoadFactsLoop(LoadFact(st, records[i], import_id), records, i + 1, import_id)

\* ETLPipeline._load_facts with every storage call succeeding
_load_facts(d, records, import_id) ==
    LoadFactsLoop([db |-> d, inserted |-> 0], records, 1, import_id)

\* ETLPipeline._start_import:
\* INSERT INTO log_import (source_file, status) VALUES (:source, 'RUNNING') RETURNING id
_start_import(d, source) ==
    LET id == NextVal(d, "log_import")
    IN  Outcome([d EXCEPT !.seq["log_import"] = id,
                          !.log_import = @ \cup
                            {[id |-> id, source_file |-> source, status |-> "RUNNING",
                              rows_processed |-> 0, rows_inserted |-> 0,
                              rows_failed |-> 0, source_hash |-> None,
                              error_message |-> None]}],
                [id |-> id])

-----------------------------------------------------------------------------
(* The inputs of the loaders: candidate rows as the validator passes them. *)

Kod(a, b) == Str(<<a, b, "0", "0", "0", "0", "0">>)

Row(kod, nazwa, typ, typ_nazwa, kategoria, rok, wartosc) ==
    [kod_jednostki |-> kod,
     nazwa_jednostki |-> Str(<<nazwa>>),
     poziom |-> Str(<<"WOJEWODZTWO">>),
     kod_wojewodztwa |-> kod,
     typ_kosztu_kod |-> Str(<<typ>>),
     typ_kosztu_nazwa |-> Str(<<typ_nazwa>>),
     kategoria |-> Str(<<kategoria>>),
     rok |-> Num(rok),
     wartosc |-> Num(wartosc)]

\* Row100 and Row150 share their natural keys and differ in value and names
Row100 == Row(Kod("0", "2"), "DOLNOSLASKIE", "ZASOBY_GMINNE",
              "zasoby gminne (komunalne)", "PUBLICZNE", 2020, 100)
Row150 == Row(Kod("0", "2"), "DOLNY SLASK", "ZASOBY_GMINNE",
              "zasoby komunalne", "PUBLICZNE", 2020, 150)
RowOther == Row(Kod("0", "4"), "KUJAWSKO-POMORSKIE", "ZASOBY_TBS",
                "zasoby TBS", "SPOLECZNE", 2022, 150)

LoaderRows == {Row100, Row150, RowOther}

SeqsUpTo(S, n) == UNION {[1..k -> S] : k \in 0..n}

LoaderBatches == SeqsUpTo(LoaderRows, MaxBatch)

-----------------------------------------------------------------------------
(* The pipelines: run's position and locals.                               *)

Procs == {1, 2}

\* ValidationResult()
NoValidation == ValidationResult(<<>>, <<>>)

\* the locals of run before its first statement; result: what run returned
IdleLoc ==
    [import_id |-> None,
     unit_level |-> 2,
     dataset |-> [data |-> <<>>, data_hash |-> None],
     transformed |-> <<>>,
     validation_result |-> NoValidation,
     work |-> <<>>,
     i |-> 1,
     inserted |-> 0,
     error |-> "",
     result |-> [tag |-> "none"]]

IdlePipelines ==
    /\ pc = [p \in Procs |-> "idle"]
    /\ loc = [p \in Procs |-> IdleLoc]

-----------------------------------------------------------------------------
(* SpecLoaders: the loaders called one after the other on a storage whose  *)
(* calls all succeed.                                                      *)

NoCall == [op |-> "none", records |-> <<>>, repeats |-> FALSE]

\* a call's record; repeats: it is the call made before it, made again
Called(c) == c @@ [repeats |-> (call.op = c.op /\ call.records = c.records)]

InitLoaders ==
    /\ db = EmptyDb
    /\ IdlePipelines
    /\ errors = <<>>
    /\ call = NoCall
    /\ ncalls = 0

StartImportCall ==
    /\ ncalls < MaxCalls
    /\ db' = _start_import(db, "GUS API P3961").db
    /\ call' = Called([op |-> "_start_import", records |-> <<>>])
    /\ ncalls' = ncalls + 1
    /\ UNCHANGED <<pc, loc, errors>>

LoadDimensionsCall ==
    /\ ncalls < MaxCalls
    /\ \E records \in LoaderBatches :
       \E okres_order \in Orders(Okresy(records)) :
          /\ db' = _load_dimensions(db, records, okres_order)
          /\ call' = Called([op |-> "_load_dimensions", records |-> records])
    /\ ncalls' = ncalls + 1
    /\ UNCHANGED <<pc, loc, errors>>

LoadFactsCall ==
    /\ ncalls < MaxCalls
    /\ \E records \in LoaderBatches :
       \E run \in db.log_import :
          LET st == _load_facts(db, records, run.id)
          IN  /\ db' = st.db
              /\ call' = Called([op |-> "_load_facts", records |-> records,
                                 import_id |-> run.id, ret |-> st.inserted])
    /\ ncalls' = ncalls + 1
    /\ UNCHANGED <<pc, loc, errors>>

NextLoaders == StartImportCall \/ LoadDimensionsCall \/ LoadFactsCall

SpecLoaders == InitLoaders /\ [][NextLoaders]_vars

-----------------------------------------------------------------------------
(* Claims about the loaders, checked under SpecLoaders.                    *)

\* the natural key of a candidate row, and the fact rows stored under it
SameNaturalKey(r, q) ==
    /\ r.kod_jednostki = q.kod_jednostki
    /\ r.typ_kosztu_kod = q.typ_kosztu_kod
    /\ r.rok = q.rok

NaturallyResolved(d, r) ==
    /\ \E j \in d.dim_jednostka : j.kod_gus = r.kod_jednostki
    /\ \E k \in d.dim_typ_kosztu : k.kod = r.typ_kosztu_kod
    /\ \E o \in d.dim_okres : o.rok = r.rok

FactsUnder(d, r) ==
    {f \in d.fact_koszty :
        /\ \E j \in d.dim_jednostka : j.kod_gus = r.kod_jednostki /\ j.id = f.jednostka_id
        /\ \E k \in d.dim_typ_kosztu : k.kod = r.typ_kosztu_kod /\ k.id = f.typ_kosztu_id
        /\ \E o \in d.dim_okres : o.rok = r.rok /\ o.id = f.okres_id}

OneFactPerKey(d) ==
    \A f, g \in d.fact_koszty :
        (f.jednostka_id = g.jednostka_id /\ f.typ_kosztu_id = g.typ_kosztu_id
            /\ f.okres_id = g.okres_id) => f = g

LastWithKey(records, r) ==
    records[CHOOSE i \in 1..Len(records) :
                /\ SameNaturalKey(records[i], r)
                /\ \A j \in (i + 1)..Len(records) : ~SameNaturalKey(records[j], r)]

IsLoadFacts == ncalls' = ncalls + 1 /\ call'.op = "_load_facts"

Dimensions(d) == <<d.dim_jednostka, d.dim_typ_kosztu, d.dim_okres>>

NoDuplicateNaturalKey(d) ==
    /\ \A a, b \in d.dim_jednostka : a.kod_gus = b.kod_gus => a = b
    /\ \A a, b \in d.dim_typ_kosztu : a.kod = b.kod => a = b
    /\ \A a, b \in d.dim_okres : a.rok = b.rok => a = b

\* C5: a _load_dimensions that directly follows a _load_dimensions of the
\* same batch leaves the unit, cost-type and period rows exactly as the
\* first left them, without a duplicate natural key, and every natural-key
\* lookup returns the id it returned after the first.
C5_LoadDimensionsIdempotent ==
    [][(/\ ncalls' = ncalls + 1
        /\ call.op = "_load_dimensions"
        /\ call'.op = "_load_dimensions"
        /\ call'.records = call.records) =>
            /\ Dimensions(db') = Dimensions(db)
            /\ NoDuplicateNaturalKey(db')
            /\ \A i \in 1..Len(call.records) :
                 LET r == call.records[i]
                 IN  /\ get_dim_jednostka_id(db', r.kod_jednostki)
                            = get_dim_jednostka_id(db, r.kod_jednostki)
                     /\ get_dim_typ_kosztu_id(db', r.typ_kosztu_kod)
                            = get_dim_typ_kosztu_id(db, r.typ_kosztu_kod)
                     /\ get_dim_okres_id(db', r.rok) = get_dim_okres_id(db, r.rok)]_vars

\* the second of two loads of one two-row batch has run
C5_Witness ==
    /\ call.op = "_load_dimensions"
    /\ call.repeats
    /\ Len(call.records) = 2
    /\ db.dim_jednostka # {} /\ db.dim_typ_kosztu # {} /\ db.dim_okres # {}

\* C7: _load_facts returns the number of rows of the batch whose unit,
\* cost type and period all resolve, each counted once; a row with an
\* unresolved dimension is not counted, and every fact row added or
\* changed by the load lies under the key of a resolving row of the batch.
C7_LoadFactsCount ==
    [][IsLoadFacts =>
         /\ call'.ret = Cardinality({i \in 1..Len(call'.records) :
                                        NaturallyResolved(db, call'.records[i])})
         /\ \A f \in db'.fact_koszty \ db.fact_koszty :
                \E i \in 1..Len(call'.records) :
                    /\ NaturallyResolved(db, call'.records[i])
                    /\ f \in FactsUnder(db', call'.records[i])
         /\ \A f \in db.fact_koszty \ db'.fact_koszty :
                \E i \in 1..Len(call'.records) :
                    /\ NaturallyResolved(db, call'.records[i])
                    /\ f \in FactsUnder(db, call'.records[i])
         /\ Dimensions(db') = Dimensions(db)]_vars

\* a load that skipped its first row and counted its second
C7_Witness ==
    /\ call.op = "_load_facts"
    /\ call.records = <<RowOther, Row100>>
    /\ call.ret = 1
    /\ ~NaturallyResolved(db, RowOther)
    /\ Cardinality(db.fact_koszty) = 1

IsLoadDimensions == ncalls' = ncalls + 1 /\ call'.op = "_load_dimensions"

\* the index of the last row of the batch with the unit code, or with the
\* cost-type code, of row i
LastUnitIndex(records, i) ==
    CHOOSE k \in 1..Len(records) :
        /\ records[k].kod_jednostki = records[i].kod_jednostki
        /\ \A j \in (k + 1)..Len(records) :
              records[j].kod_jednostki # records[i].kod_jednostki

LastTypIndex(records, i) ==
    CHOOSE k \in 1..Len(records) :
        /\ records[k].typ_kosztu_kod = records[i].typ_kosztu_kod
        /\ \A j \in (k + 1)..Len(records) :
              records[j].typ_kosztu_kod # records[i].typ_kosztu_kod

\* C20: when a batch holds a unit code, or a cost-type code, several times
\* with different names, the dimension row that _load_dimensions creates
\* for the key carries the name of the last occurrence of the key in the
\* batch.
C20_LastOccurrenceNames ==
    [][IsLoadDimensions =>
         \A i \in 1..Len(call'.records) :
            LET records == call'.records
                r == records[i]
            IN  /\ (\A j \in db.dim_jednostka : j.kod_gus # r.kod_jednostki) =>
                      \A j \in db'.dim_jednostka :
                         j.kod_gus = r.kod_jednostki =>
                            j.nazwa = records[LastUnitIndex(records, i)].nazwa_jednostki
                /\ (\A k \in db.dim_typ_kosztu : k.kod # r.typ_kosztu_kod) =>
                      \A k \in db'.dim_typ_kosztu :
                         k.kod = r.typ_kosztu_kod =>
                            k.nazwa = records[LastTypIndex(records, i)].typ_kosztu_nazwa]_vars

\* C21: a _load_dimensions call made after the calls before it have ended
\* never changes and never deletes a unit, cost-type or period row that was
\* stored before it, also when the batch carries another name for the key
\* of a stored row; every row it adds lies under a natural key that was
\* absent before the call, and no fact or import run is touched.
C21_LoadDimensionsKeepsStoredRows ==
    [][IsLoadDimensions =>
         /\ db.dim_jednostka \subseteq db'.dim_jednostka
         /\ db.dim_typ_kosztu \subseteq db'.dim_typ_kosztu
         /\ db.dim_okres \subseteq db'.dim_okres
         /\ \A j \in db'.dim_jednostka \ db.dim_jednostka :
                /\ \A o \in db.dim_jednostka : o.kod_gus # j.kod_gus /\ o.id # j.id
                /\ \E i \in 1..Len(call'.records) :
                       call'.records[i].kod_jednostki = j.kod_gus
         /\ \A t \in db'.dim_typ_kosztu \ db.dim_typ_kosztu :
                /\ \A o \in db.dim_typ_kosztu : o.kod # t.kod /\ o.id # t.id
                /\ \E i \in 1..Len(call'.records) :
                       call'.records[i].typ_kosztu_kod = t.kod
         /\ \A k \in db'.dim_okres \ db.dim_okres :
                /\ \A o \in db.dim_okres : o.rok # k.rok /\ o.id # k.id
                /\ \E i \in 1..Len(call'.records) : call'.records[i].rok = k.rok
         /\ db'.fact_koszty = db.fact_koszty
         /\ db'.log_import = db.log_import]_vars

\* a load of the batch that names unit 0200000 "DOLNY SLASK" has run on a
\* storage that held the unit as "DOLNOSLASKIE", and the unit still has
\* the stored name
C21_Witness ==
    /\ call.op = "_load_dimensions"
    /\ call.records = <<Row150>>
    /\ \E j \in db.dim_jednostka :
          /\ j.kod_gus = Row150.kod_jednostki
          /\ j.nazwa = Row100.nazwa_jednostki
          /\ j.nazwa # Row150.nazwa_jednostki
    /\ \E t \in db.dim_typ_kosztu :
          /\ t.kod = Row150.typ_kosztu_kod
          /\ t.nazwa = Row100.typ_kosztu_nazwa
          /\ t.nazwa # Row150.typ_kosztu_nazwa

-----------------------------------------------------------------------------
(* SpecValidator: one DataValidator, its methods called one after the      *)
(* other on candidate rows of every shape.                                 *)

Candidate(kod, nazwa, rok, wartosc) ==
    [kod_jednostki |-> kod,
     nazwa_jednostki |-> nazwa,
     poziom |-> Str(<<"WOJEWODZTWO">>),
     kod_wojewodztwa |-> Kod("0", "2"),
     typ_kosztu_kod |-> Str(<<"ZASOBY_GMINNE">>),
     typ_kosztu_nazwa |-> Str(<<"zasoby gminne (komunalne)">>),
     kategoria |-> Str(<<"PUBLICZNE">>),
     rok |-> rok,
     wartosc |-> wartosc]

KodValues ==
    {Absent, None, Str(<<>>), Str(<<" ", " ">>), Str(<<"1", "2", "3">>),
     Kod("0", "2"),
     Str(<<"0", "2", "0", "0", "0", "0", "0", "0">>),
     Str(<<"0", "2", "-", "0", "0", "0", "0">>)}

NazwaValues == {None, Str(<<>>), Str(<<" ">>), Str(<<"DOLNOSLASKIE">>)}

RokValues ==
    {None, Num(MIN_ROK - 1), Num(MIN_ROK), Num(MAX_ROK), Num(MAX_ROK + 1),
     Str(<<"2", "0", "2", "2">>), Str(<<" ", "2", "0", "2", "2", "\n">>),
     Str(<<"2", "1", "0", "1">>), Str(<<"r", "o", "k">>)}

WartoscValues == {None, Num(100)}

Candidates ==
    {Candidate(kod, nazwa, rok, wartosc) :
        kod \in KodValues, nazwa \in NazwaValues,
        rok \in RokValues, wartosc \in WartoscValues}

GoodRow == Candidate(Kod("0", "2"), Str(<<"DOLNOSLASKIE">>), Num(2022), Num(100))
NullValueRow == Candidate(Kod("0", "2"), Str(<<"DOLNOSLASKIE">>), Num(2022), None)
BadKodRow == Candidate(Str(<<"0", "2", "-", "0", "0", "0", "0">>),
                       Str(<<"DOLNOSLASKIE">>), Num(2022), Num(100))
BadRokRow == Candidate(Kod("0", "2"), Str(<<"DOLNOSLASKIE">>), Num(MIN_ROK - 1), Num(100))

ValidatorRows == {GoodRow, NullValueRow, BadKodRow, BadRokRow}

ValidatorBatches == SeqsUpTo(ValidatorRows, MaxBatch)

InitValidator ==
    /\ db = EmptyDb
    /\ IdlePipelines
    /\ errors = <<>>
    /\ call = NoCall
    /\ ncalls = 0

\* a direct call of validate_raw_gus_record: self.errors keeps growing; a
\* validator without errors is called on every shape of candidate, one that
\* already holds errors on the rows the batches are made of
ValidateRawGusRecordCall ==
    /\ ncalls < MaxCalls
    /\ Len(errors) < MaxDirect
    /\ \E record \in (IF errors = <<>> THEN Candidates ELSE ValidatorRows) :
          LET r == validate_raw_gus_record(errors, record)
          IN  /\ errors' = r.errors
              /\ call' = Called([op |-> "validate_raw_gus_record",
                                 records |-> <<record>>, ret |-> r.ok])
    /\ ncalls' = ncalls + 1
    /\ UNCHANGED <<db, pc, loc>>

ValidateRawBatchCall ==
    /\ ncalls < MaxCalls
    /\ \E records \in ValidatorBatches :
          LET r == validate_raw_batch(errors, records)
          IN  /\ errors' = r.errors
              /\ call' = Called([op |-> "validate_raw_batch",
                                 records |-> records, ret |-> r.result])
    /\ ncalls' = ncalls + 1
    /\ UNCHANGED <<db, pc, loc>>

\* unit records of every shape for validate_batch(records, 'jednostka')
Jednostka(kod_gus, nazwa, poziom) ==
    [kod_gus |-> kod_gus, nazwa |-> nazwa, poziom |-> poziom]

KodGusValues ==
    {Absent, None, Str(<<>>), Str(<<" ">>), Str(<<"1", "2", "3">>),
     Kod("0", "2"),
     Str(<<"0", "2", "0", "0", "0", "0", "0", "\n">>),
     Str(<<"0", "2", "-", "0", "0", "0", "0">>)}

PoziomValues ==
    {Absent, None, Str(<<>>), Str(<<" ">>), Str(<<"POLSKA">>),
     Str(<<"WOJEWODZTWO">>), Str(<<"POWIAT">>), Str(<<"GMINA">>)}

JednostkaCandidates ==
    {Jednostka(kod_gus, nazwa, poziom) :
        kod_gus \in KodGusValues, nazwa \in NazwaValues, poziom \in PoziomValues}

\* records of src/tests/test_validator.py
GoodJednostka == Jednostka(Kod("0", "2"), Str(<<"DOLNOSLASKIE">>), Str(<<"WOJEWODZTWO">>))
BadPoziomJednostka == Jednostka(Kod("0", "2"), Str(<<"DOLNOSLASKIE">>), Str(<<"GMINA">>))

NextValidator == ValidateRawGusRecordCall \/ ValidateRawBatchCall

SpecValidator == InitValidator /\ [][NextValidator]_vars

-----------------------------------------------------------------------------
(* Claims about the validator, checked under SpecValidator.                *)

\* the ways of sending each input index to the valid or to the error side
Sides(n) == [1..n -> {"valid", "error"}]

RECURSIVE Pick(_, _, _, _)
Pick(records, side, which, i) ==
    IF i > Len(records) THEN <<>>
    ELSE (IF side[i] = which THEN <<records[i]>> ELSE <<>>)
            \o Pick(records, side, which, i + 1)

IsRawRecordCall == call.op = "validate_raw_gus_record"

LastError == errors[Len(errors)]

RejectedAs(kind) ==
    /\ call.ret = FALSE
    /\ Len(errors) > 0
    /\ LastError.record_data = call.records[1]
    /\ LastError.error_type = kind

\* a field is null when it is None or missing from the record
IsNull(v) == v.tag \in {"none", "absent"}

IsBlank(v) == v.tag = "str" /\ Strip(v.s) = <<>>

\* a unit code of seven digits, a name that is not blank, a year that is a
\* number within MIN_ROK..MAX_ROK, a value that is a number
WellFormed(r) ==
    /\ r.kod_jednostki.tag = "str"
    /\ Len(r.kod_jednostki.s) = 7
    /\ \A i \in 1..7 : r.kod_jednostki.s[i] \in DigitSet
    /\ r.nazwa_jednostki.tag = "str" /\ ~IsBlank(r.nazwa_jednostki)
    /\ r.rok.tag = "int" /\ MIN_ROK <= r.rok.i /\ r.rok.i <= MAX_ROK
    /\ r.wartosc.tag = "int"

\* C9: validate_raw_gus_record rejects every candidate whose value is null
\* with a NULL_VALUE error, whatever its other fields hold, and accepts
\* every candidate whose unit code, name, year and value are non-null,
\* type-correct and in range.
C9_NullValueRejected ==
    IsRawRecordCall =>
        LET r == call.records[1]
        IN  /\ IsNull(r.wartosc) => RejectedAs("NULL_VALUE")
            /\ WellFormed(r) => call.ret = TRUE

\* C10: validate_raw_gus_record rejects with a NULL_VALUE error every
\* candidate whose unit code, unit name, year or value is null, and every
\* candidate whose unit code or unit name is a blank string; a candidate
\* with an empty or missing unit code is never accepted.
C10_RequiredFields ==
    IsRawRecordCall =>
        LET r == call.records[1]
        IN  (\/ IsNull(r.kod_jednostki) \/ IsNull(r.nazwa_jednostki)
             \/ IsNull(r.rok) \/ IsNull(r.wartosc)
             \/ IsBlank(r.kod_jednostki) \/ IsBlank(r.nazwa_jednostki))
                => RejectedAs("NULL_VALUE")

\* the value y reads as the integer n: it is that number, or a string that
\* is the decimal numeral of n between optional whitespace
Denotes(y, n) ==
    \/ y.tag = "int" /\ y.i = n
    \/ y.tag = "str" /\ Strip(y.s) = NatToStr(n)

\* the integers the years of the candidates range over
YearsTried == (MIN_ROK - 100)..(MAX_ROK + 100)

\* every field but the year passes its check
OtherFieldsValid(r) ==
    /\ r.kod_jednostki.tag = "str"
    /\ Len(r.kod_jednostki.s) = 7
    /\ \A i \in 1..7 : r.kod_jednostki.s[i] \in DigitSet
    /\ r.nazwa_jednostki.tag = "str" /\ ~IsBlank(r.nazwa_jednostki)
    /\ r.wartosc.tag = "int"

FirstFailure(r) ==
    IF \E k \in 1..Len(REQUIRED_FIELDS_JEDNOSTKA) :
          LET v == r[REQUIRED_FIELDS_JEDNOSTKA[k]] IN IsNull(v) \/ IsBlank(v)
    THEN "NULL_VALUE"
    ELSE IF ~(/\ Len(PyStr(r.kod_gus)) = 7
              /\ \A i \in 1..7 : PyStr(r.kod_gus)[i] \in DigitSet)
    THEN "INVALID_KOD_GUS"
    ELSE IF \A v \in VALID_POZIOMY : r.poziom # Str(<<v>>)
    THEN "INVALID_POZIOM"
    ELSE ""

\* the records of a batch that fail a check, in input order
RECURSIVE Rejected(_, _)
Rejected(records, i) ==
    IF i > Len(records) THEN <<>>
    ELSE (IF FirstFailure(records[i]) # "" THEN <<records[i]>> ELSE <<>>)
            \o Rejected(records, i + 1)

\* C25: validate_batch(records, 'jednostka') accepts a record iff kod_gus,
\* nazwa and poziom are all non-null and non-blank, kod_gus as given is
\* exactly 7 digits and poziom is one of POLSKA, WOJEWODZTWO, POWIAT; each
\* rejected record yields exactly one error, of the kind of the first
\* failing check in the order NULL_VALUE, INVALID_KOD_GUS, INVALID_POZIOM;
\* valid_count + error_count = total_input.
C25_ValidateBatchJednostka ==
    call.op = "validate_batch" =>
        LET res == call.ret
            input == call.records
            rejected == Rejected(input, 1)
        IN  /\ \A i \in 1..Len(input) :
                  (\E j \in 1..Len(res.valid_records) : res.valid_records[j] = input[i])
                      <=> FirstFailure(input[i]) = ""
            /\ Len(res.errors) = Len(rejected)
            /\ \A k \in 1..Len(rejected) :
                  /\ res.errors[k].record_data = rejected[k]
                  /\ res.errors[k].error_type = FirstFailure(rejected[k])
            /\ res.valid_count + res.error_count = res.total_input
            /\ res.total_input = Len(input)

-----------------------------------------------------------------------------
(* SpecResults: a caller keeps the ValidationResult of a validate_raw_batch *)
(* call, as run does, while the validator goes on being called.  A Python   *)
(* list is an object: errors_list tells whether the list in the result's    *)
(* errors field is a list of its own ("copy") or the very list object that  *)
(* self.errors names ("self.errors"), which _add_error appends to in place. *)

\* validate_raw_batch that hands out self.errors itself
ReturnOfRawBatchNoCopy(errs, records) ==
    [result |-> validate_raw_batch(errs, records).result,
     errors_list |-> "self.errors",
     had_errors |-> errs # <<>>]

\* the return statement of validate_raw_batch: errors=self.errors.copy();
\* had_errors: self.errors held errors when the call was made
ReturnOfRawBatch(errs, records) ==
    [result |-> validate_raw_batch(errs, records).result,
     errors_list |-> "copy",
     had_errors |-> errs # <<>>]

\* the result the caller holds after a later call of the validator:
\* rebinds: the call began with self.errors = [], so the old list object is
\* no longer the validator's; otherwise the call appended to it in place
HeldAfter(held, rebinds, errs) ==
    IF held.errors_list # "self.errors" THEN held
    ELSE IF rebinds THEN [held EXCEPT !.errors_list = "detached"]
    ELSE [held EXCEPT !.result = ValidationResult(held.result.valid_records, errs)]

ResultsRows == {GoodRow, BadKodRow}
ResultsBatches == SeqsUpTo(ResultsRows, MaxBatch)
ResultsJednostkaBatches == SeqsUpTo({GoodJednostka, BadPoziomJednostka}, MaxBatch)

\* batches of one unit record of any shape, and the longer ones
JednostkaBatches == {<<r>> : r \in JednostkaCandidates} \cup ResultsJednostkaBatches

InitResults ==
    /\ db = EmptyDb
    /\ IdlePipelines
    /\ errors = <<>>
    /\ call = NoCall
    /\ ncalls = 0

Holds == pc[1] = "returned"

\* what a later call leaves of the result held
KeepHeld(rebinds) ==
    /\ pc' = pc
    /\ loc' = IF Holds
              THEN [loc EXCEPT ![1].validation_result = HeldAfter(@, rebinds, errors')]
              ELSE loc

\* validation_result = validator.validate_raw_batch(records); the first
\* result returned is the one the caller keeps
RawBatchCall ==
    /\ ncalls < MaxCalls
    /\ \E records \in ResultsBatches :
          LET r == validate_raw_batch(errors, records)
          IN  /\ errors' = r.errors
              /\ call' = Called([op |-> "validate_raw_batch",
                                 records |-> records, ret |-> r.result])
              /\ IF Holds THEN KeepHeld(TRUE)
                 ELSE /\ pc' = [pc EXCEPT ![1] = "returned"]
                      /\ loc' = [loc EXCEPT ![1].validation_result =
                                                ReturnOfRawBatch(errors, records)]
    /\ ncalls' = ncalls + 1
    /\ UNCHANGED db

\* validate_batch(records, 'jednostka'); a validator that was not called
\* before is called on every shape of record
BatchCall ==
    /\ ncalls < MaxCalls
    /\ \E records \in (IF ncalls = 0 THEN JednostkaBatches
                        ELSE ResultsJednostkaBatches) :
          LET r == validate_batch(errors, records)
          IN  /\ errors' = r.errors
              /\ call' = Called([op |-> "validate_batch",
                                 records |-> records, ret |-> r.result])
    /\ KeepHeld(TRUE)
    /\ ncalls' = ncalls + 1
    /\ UNCHANGED db

\* direct calls of validate_raw_gus_record and validate_jednostka
DirectCall ==
    /\ ncalls < MaxCalls
    /\ Len(errors) < MaxDirect + MaxBatch
    /\ \/ \E record \in ResultsRows :
             LET r == validate_raw_gus_record(errors, record)
             IN  /\ errors' = r.errors
                 /\ call' = Called([op |-> "validate_raw_gus_record",
                                    records |-> <<record>>, ret |-> r.ok])
       \/ \E record \in {GoodJednostka, BadPoziomJednostka} :
             LET r == validate_jednostka(errors, record)
             IN  /\ errors' = r.errors
                 /\ call' = Called([op |-> "validate_jednostka",
                                    records |-> <<record>>, ret |-> r.ok])
    /\ KeepHeld(FALSE)
    /\ ncalls' = ncalls + 1
    /\ UNCHANGED db

NextResults == RawBatchCall \/ BatchCall \/ DirectCall

SpecResults == InitResults /\ [][NextResults]_vars

\* C28: the ValidationResult that validate_raw_batch returns depends only
\* on the batch of that call: it is the result a validator without errors
\* returns for the batch, whatever validate_raw_batch, validate_batch or
\* direct validate_* calls were made before; and no later call on the
\* validator alters a result already returned.
C28_ResultOfThisBatchOnly ==
    [][/\ (ncalls' = ncalls + 1 /\ call'.op = "validate_raw_batch") =>
             /\ call'.ret = validate_raw_batch(<<>>, call'.records).result
             /\ ~Holds => loc'[1].validation_result.result = call'.ret
       /\ Holds => /\ pc'[1] = "returned"
                   /\ loc'[1].validation_result.result
                         = loc[1].validation_result.result]_vars

\* a validator that held an error returned a result with one error for a
\* batch, and a direct call made later added another error to self.errors
C28_Witness ==
    /\ Holds
    /\ loc[1].validation_result.had_errors
    /\ loc[1].validation_result.result.error_count = 1
    /\ call.op \in {"validate_raw_gus_record", "validate_jednostka"}
    /\ call.ret = FALSE
    /\ Len(errors) = 2

-----------------------------------------------------------------------------
(* src/src/etl.py: the cost-type classifier and the transformer.  A Polish *)
(* letter is one character, written as its base letter and a mark: "n'"    *)
(* is n-acute, "l/" is l-stroke, "a," is a-ogonek, "z." is z-dot.          *)

Replacements ==
    [from |-> <<"a,", "c'", "e,", "l/", "n'", "o'", "s'", "z'", "z.",
                "A,", "C'", "E,", "L/", "N'", "O'", "S'", "Z'", "Z.">>,
     to |-> <<"a", "c", "e", "l", "n", "o", "s", "z", "z",
              "A", "C", "E", "L", "N", "O", "S", "Z", "Z">>]

Upper == <<"A", "B", "C", "D", "E", "F", "G", "H", "I", "J", "K", "L", "M",
           "N", "O", "P", "Q", "R", "S", "T", "U", "V", "W", "X", "Y", "Z">>
Lower == <<"a", "b", "c", "d", "e", "f", "g", "h", "i", "j", "k", "l", "m",
           "n", "o", "p", "q", "r", "s", "t", "u", "v", "w", "x", "y", "z">>

Replace(c) ==
    IF \E i \in 1..Len(Replacements.from) : Replacements.from[i] = c
    THEN Replacements.to[CHOOSE i \in 1..Len(Replacements.from) : Replacements.from[i] = c]
    ELSE c

ToLower(c) ==
    IF \E i \in 1..Len(Upper) : Upper[i] = c
    THEN Lower[CHOOSE i \in 1..Len(Upper) : Upper[i] = c]
    ELSE c

\* normalize without the replacements of the Polish letters
NormalizeLowerOnly(s) == [i \in 1..Len(s) |-> ToLower(s[i])]

\* normalize(s) of _map_variable_to_cost_type: the replacements, then lower()
normalize(s) == [i \in 1..Len(s) |-> ToLower(Replace(s[i]))]

\* needle in hay
Contains(hay, needle) ==
    \E i \in 0..(Len(hay) - Len(needle)) :
        \A j \in 1..Len(needle) : hay[i + j] = needle[j]

Kw_gminne == <<"g", "m", "i", "n", "n", "e">>
Kw_komunalne == <<"k", "o", "m", "u", "n", "a", "l", "n", "e">>
Kw_skarbu_panstwa == <<"s", "k", "a", "r", "b", "u", " ", "p", "a", "n",
                       "s", "t", "w", "a">>
Kw_skarb_panstwa == <<"s", "k", "a", "r", "b", " ", "p", "a", "n", "s",
                      "t", "w", "a">>
Kw_spoldzielni == <<"s", "p", "o", "l", "d", "z", "i", "e", "l", "n", "i">>
Kw_spoldzielcz == <<"s", "p", "o", "l", "d", "z", "i", "e", "l", "c", "z">>
Kw_tbs == <<"t", "b", "s">>
Kw_budownictwa_spolecznego == <<"b", "u", "d", "o", "w", "n", "i", "c",
                                "t", "w", "a", " ", "s", "p", "o", "l",
                                "e", "c", "z", "n", "e", "g", "o">>
Kw_wspolnot == <<"w", "s", "p", "o", "l", "n", "o", "t">>
Kw_innych_podmiotow == <<"i", "n", "n", "y", "c", "h", " ", "p", "o", "d",
                         "m", "i", "o", "t", "o", "w">>
Kw_inne_podmioty == <<"i", "n", "n", "e", " ", "p", "o", "d", "m", "i",
                      "o", "t", "y">>
Kw_zakladow_pracy == <<"z", "a", "k", "l", "a", "d", "o", "w", " ", "p",
                       "r", "a", "c", "y">>
Kw_zaklady_pracy == <<"z", "a", "k", "l", "a", "d", "y", " ", "p", "r",
                      "a", "c", "y">>

Unmapped == [tag |-> "none"]
CostType(kod, kategoria) == [tag |-> "pair", kod |-> kod, kategoria |-> kategoria]

\* the keyword rules in the order of their if statements
KeywordRules ==
    <<[keywords |-> {Kw_gminne, Kw_komunalne},
       typ |-> CostType("ZASOBY_GMINNE", "PUBLICZNE")],
      [keywords |-> {Kw_skarbu_panstwa, Kw_skarb_panstwa},
       typ |-> CostType("ZASOBY_SKARBU_PANSTWA", "PUBLICZNE")],
      [keywords |-> {Kw_spoldzielni, Kw_spoldzielcz},
       typ |-> CostType("ZASOBY_SPOLDZIELNI", "SPOLDZIELCZE")],
      [keywords |-> {Kw_tbs, Kw_budownictwa_spolecznego},
       typ |-> CostType("ZASOBY_TBS", "SPOLECZNE")],
      [keywords |-> {Kw_wspolnot},
       typ |-> CostType("ZASOBY_WSPOLNOTY", "PRYWATNE")],
      [keywords |-> {Kw_innych_podmiotow, Kw_inne_podmioty},
       typ |-> CostType("ZASOBY_INNE", "PRYWATNE")],
      [keywords |-> {Kw_zakladow_pracy, Kw_zaklady_pracy},
       typ |-> CostType("ZASOBY_ZAKLADY_PRACY", "PRYWATNE")]>>

\* the rules a normalized label matches
MatchingRules(name_norm) ==
    {i \in 1..Len(KeywordRules) :
        \E kw \in KeywordRules[i].keywords : Contains(name_norm, kw)}

\* the classifier with the last matching rule winning
MapVariableLastRuleWins(variable_name) ==
    LET matching == MatchingRules(normalize(variable_name))
    IN  IF matching = {} THEN Unmapped
        ELSE KeywordRules[CHOOSE i \in matching : \A j \in matching : j <= i].typ

\* ETLPipeline._map_variable_to_cost_type
_map_variable_to_cost_type(variable_name) ==
    LET name_norm == normalize(variable_name)
    IN  IF Contains(name_norm, Kw_gminne) \/ Contains(name_norm, Kw_komunalne)
        THEN CostType("ZASOBY_GMINNE", "PUBLICZNE")
        ELSE IF Contains(name_norm, Kw_skarbu_panstwa) \/ Contains(name_norm, Kw_skarb_panstwa)
        THEN CostType("ZASOBY_SKARBU_PANSTWA", "PUBLICZNE")
        ELSE IF Contains(name_norm, Kw_spoldzielni) \/ Contains(name_norm, Kw_spoldzielcz)
        THEN CostType("ZASOBY_SPOLDZIELNI", "SPOLDZIELCZE")
        ELSE IF Contains(name_norm, Kw_tbs) \/ Contains(name_norm, Kw_budownictwa_spolecznego)
        THEN CostType("ZASOBY_TBS", "SPOLECZNE")
        ELSE IF Contains(name_norm, Kw_wspolnot)
        THEN CostType("ZASOBY_WSPOLNOTY", "PRYWATNE")
        ELSE IF Contains(name_norm, Kw_innych_podmiotow) \/ Contains(name_norm, Kw_inne_podmioty)
        THEN CostType("ZASOBY_INNE", "PRYWATNE")
        ELSE IF Contains(name_norm, Kw_zakladow_pracy) \/ Contains(name_norm, Kw_zaklady_pracy)
        THEN CostType("ZASOBY_ZAKLADY_PRACY", "PRYWATNE")
        ELSE Unmapped

\* ETLPipeline._convert_unit_id: unit_id.replace("-", "")[:7].zfill(7)
RECURSIVE RemoveDashes(_)
RemoveDashes(s) ==
    IF Len(s) = 0 THEN <<>>
    ELSE (IF s[1] = "-" THEN <<>> ELSE <<s[1]>>) \o RemoveDashes(Tail(s))

Prefix(s, n) == SubSeq(s, 1, IF Len(s) < n THEN Len(s) ELSE n)

\* _convert_unit_id that keeps the dashes of the identifier
ConvertUnitIdKeepDashes(unit_id) == Zfill(Prefix(unit_id, 7), 7)

_convert_unit_id(unit_id) == Zfill(Prefix(RemoveDashes(unit_id), 7), 7)

\* ETLPipeline._extract_kod_wojewodztwa
_extract_kod_wojewodztwa(kod) ==
    IF kod = <<"0", "0", "0", "0", "0", "0", "0">> THEN None
    ELSE Str(Prefix(kod, 2) \o <<"0", "0", "0", "0", "0">>)

\* poziom_map.get(unit_level, "POWIAT")
Poziom(unit_level) ==
    CASE unit_level \in {0, 1} -> "POLSKA"
      [] unit_level = 2 -> "WOJEWODZTWO"
      [] unit_level = 3 -> "PODREGION"
      [] unit_level = 4 -> "POWIAT"
      [] unit_level \in {5, 6} -> "GMINA"
      [] OTHER -> "POWIAT"

\* float(value) of Python
PyFloat(v) == IF v.tag = "int" THEN [raises |-> FALSE, v |-> v]
              ELSE IF v.tag = "str" /\ ~PyInt(v).raises
              THEN [raises |-> FALSE, v |-> Num(PyInt(v).i)]
              ELSE [raises |-> TRUE, v |-> None]

\* one round of the inner loop of _transform, over one observation val of
\* record: the rows so far and whether an exception left the loop
TransformValue(st, record, val, unit_level) ==
    LET year == PyInt(GetOr(val.year, Num(0)))
        value == Get(val.val)
        kod_gus == _convert_unit_id(GetOr(record.id, Str(<<>>)).s)
        typ_info == _map_variable_to_cost_type(GetOr(record.variable_name, Str(<<>>)).s)
        poziom == Poziom(unit_level)
    IN  IF st.raises THEN st
        ELSE IF year.raises THEN [st EXCEPT !.raises = TRUE]
        ELSE IF IsNone(value) THEN st
        ELSE IF typ_info = Unmapped THEN st
        ELSE IF PyFloat(value).raises THEN [st EXCEPT !.raises = TRUE]
        ELSE [st EXCEPT !.rows = Append(@,
                [kod_jednostki |-> Str(kod_gus),
                 nazwa_jednostki |-> GetOr(record.name, Str(<<>>)),
                 poziom |-> Str(<<poziom>>),
                 kod_wojewodztwa |-> IF poziom # "POLSKA"
                                     THEN _extract_kod_wojewodztwa(kod_gus) ELSE None,
                 typ_kosztu_kod |-> Str(<<typ_info.kod>>),
                 typ_kosztu_nazwa |-> GetOr(record.variable_name, Str(<<>>)),
                 kategoria |-> Str(<<typ_info.kategoria>>),
                 rok |-> Num(year.i),
                 wartosc |-> PyFloat(value).v])]

RECURSIVE TransformValues(_, _, _, _, _)
TransformValues(st, record, values, k, unit_level) ==
    IF k > Len(values) THEN st
    ELSE TransformValues(TransformValue(st, record, values[k], unit_level),
                         record, values, k + 1, unit_level)

RECURSIVE TransformRecords(_, _, _, _)
TransformRecords(st, raw_data, i, unit_level) ==
    IF i > Len(raw_data) THEN st
    ELSE TransformRecords(
            TransformValues(st, raw_data[i], raw_data[i].values, 1, unit_level),
            raw_data, i + 1, unit_level)

\* ETLPipeline._transform: the candidate rows, or raises
_transform(raw_data, unit_level) ==
    TransformRecords([rows |-> <<>>, raises |-> FALSE], raw_data, 1, unit_level)

\* the labels of COST_TYPE_MAPPING, and a label the classifier does not know
LabelGminne ==
    <<"z", "a", "s", "o", "b", "y", " ", "g", "m", "i", "n", "n", "e", " ",
      "(", "k", "o", "m", "u", "n", "a", "l", "n", "e", ")">>
LabelSkarbuPanstwa ==
    <<"z", "a", "s", "o", "b", "y", " ", "S", "k", "a", "r", "b", "u", " ",
      "P", "a", "n'", "s", "t", "w", "a">>
LabelSpoldzielni ==
    <<"z", "a", "s", "o", "b", "y", " ", "s", "p", "o'", "l/", "d", "z",
      "i", "e", "l", "n", "i", " ", "m", "i", "e", "s", "z", "k", "a", "n",
      "i", "o", "w", "y", "c", "h">>
LabelTBS ==
    <<"z", "a", "s", "o", "b", "y", " ", "t", "o", "w", "a", "r", "z", "y",
      "s", "t", "w", " ", "b", "u", "d", "o", "w", "n", "i", "c", "t", "w",
      "a", " ", "s", "p", "o", "l/", "e", "c", "z", "n", "e", "g", "o",
      " ", "(", "T", "B", "S", ")">>
LabelWspolnoty ==
    <<"z", "a", "s", "o", "b", "y", " ", "w", " ", "b", "u", "d", "y", "n",
      "k", "a", "c", "h", " ", "o", "b", "j", "e,", "t", "y", "c", "h",
      " ", "w", "s", "p", "o'", "l", "n", "o", "t", "a", "m", "i", " ",
      "m", "i", "e", "s", "z", "k", "a", "n", "i", "o", "w", "y", "m", "i">>
LabelInne ==
    <<"z", "a", "s", "o", "b", "y", " ", "i", "n", "n", "y", "c", "h", " ",
      "p", "o", "d", "m", "i", "o", "t", "o'", "w">>
LabelZakladyPracy ==
    <<"z", "a", "s", "o", "b", "y", " ", "z", "a", "k", "l/", "a", "d",
      "o'", "w", " ", "p", "r", "a", "c", "y">>
LabelUnknown ==
    <<"z", "a", "s", "o", "b", "y", " ", "p", "r", "y", "w", "a", "t", "n",
      "e", " ", "o", "s", "o'", "b", " ", "f", "i", "z", "y", "c", "z",
      "n", "y", "c", "h">>

-----------------------------------------------------------------------------
(* SpecClassifier: _map_variable_to_cost_type called on labels: those of    *)
(* COST_TYPE_MAPPING, spellings of the rule keywords in other letter cases, *)
(* and labels that hold no keyword.                                         *)

\* ETLPipeline.COST_TYPE_MAPPING
COST_TYPE_MAPPING ==
    <<[label |-> LabelGminne, typ |-> CostType("ZASOBY_GMINNE", "PUBLICZNE")],
      [label |-> LabelSkarbuPanstwa, typ |-> CostType("ZASOBY_SKARBU_PANSTWA", "PUBLICZNE")],
      [label |-> LabelSpoldzielni, typ |-> CostType("ZASOBY_SPOLDZIELNI", "SPOLDZIELCZE")],
      [label |-> LabelTBS, typ |-> CostType("ZASOBY_TBS", "SPOLECZNE")],
      [label |-> LabelWspolnoty, typ |-> CostType("ZASOBY_WSPOLNOTY", "PRYWATNE")],
      [label |-> LabelInne, typ |-> CostType("ZASOBY_INNE", "PRYWATNE")],
      [label |-> LabelZakladyPracy, typ |-> CostType("ZASOBY_ZAKLADY_PRACY", "PRYWATNE")]>>

OtherLabels ==
    {
     <<>>,
     <<"z", "a", "s", "o", "b", "y">>,
     <<"Z", "A", "S", "O", "B", "Y", " ", "G", "M", "I", "N", "N", "E">>,
     <<"S", "k", "a", "r", "b", " ", "P", "a", "n'", "s", "t", "w", "a">>,
     <<"S", "P", "O'", "L/", "D", "Z", "I", "E", "L", "C", "Z", "E">>,
     <<"T", "B", "S">>,
     <<"W", "s", "p", "o'", "l", "n", "o", "t", "y", " ", "m", "i", "e",
       "s", "z", "k", "a", "n", "i", "o", "w", "e">>,
     <<"i", "n", "n", "e", " ", "p", "o", "d", "m", "i", "o", "t", "y">>,
     <<"Z", "A", "K", "L/", "A", "D", "Y", " ", "P", "R", "A", "C", "Y">>,
     <<"k", "o", "m", "u", "n", "a", "l", "n", "e">>,
     <<"s", "p", "o'", "l/", "d", "z", "i", "e", "l", "n", "i", "a">>,
     <<"w", "s", "p", "o'", "l", "n", "e">>,
     <<"s", "k", "a", "r", "b">>,
     <<"z", "a", "k", "l/", "a", "d", " ", "p", "r", "a", "c", "y">>,
     <<"g", "m", "i", "n", "a">>,
     <<"t", "o", "w", "a", "r", "z", "y", "s", "t", "w", "a", " ", "b", "u",
       "d", "o", "w", "n", "i", "c", "t", "w", "a">>,
     <<"i", "n", "n", "y", "c", "h">>}

\* labels that hold keywords of two rules
LabelGminneSpoldzielni ==
    <<"z", "a", "s", "o", "b", "y", " ", "g", "m", "i", "n", "n", "e", " ",
      "i", " ", "s", "p", "o'", "l/", "d", "z", "i", "e", "l", "n", "i">>
LabelSpoldzielnieSkarbuPanstwa ==
    <<"s", "p", "o'", "l/", "d", "z", "i", "e", "l", "n", "i", "e", " ", "S",
      "k", "a", "r", "b", "u", " ", "P", "a", "n'", "s", "t", "w", "a">>
LabelWspolnotyTBS ==
    <<"w", "s", "p", "o'", "l", "n", "o", "t", "y", " ", "T", "B", "S">>
LabelZakladyPracyInnychPodmiotow ==
    <<"z", "a", "k", "l/", "a", "d", "y", " ", "p", "r", "a", "c", "y", " ",
      "i", "n", "n", "y", "c", "h", " ", "p", "o", "d", "m", "i", "o", "t",
      "o'", "w">>

OverlapLabels ==
    {LabelGminneSpoldzielni, LabelSpoldzielnieSkarbuPanstwa, LabelWspolnotyTBS,
     LabelZakladyPracyInnychPodmiotow}

ClassifierLabels ==
    {COST_TYPE_MAPPING[i].label : i \in 1..Len(COST_TYPE_MAPPING)}
        \cup {LabelUnknown} \cup OtherLabels \cup OverlapLabels

InitClassifier ==
    /\ db = EmptyDb
    /\ IdlePipelines
    /\ errors = <<>>
    /\ call = NoCall
    /\ ncalls = 0

MapVariableCall ==
    /\ ncalls < MaxCalls
    /\ \E variable_name \in ClassifierLabels :
          call' = Called([op |-> "_map_variable_to_cost_type",
                          records |-> <<variable_name>>,
                          ret |-> _map_variable_to_cost_type(variable_name)])
    /\ ncalls' = ncalls + 1
    /\ UNCHANGED <<db, pc, loc, errors>>

\* raw unit identifiers: with the dash of the API, with another separator,
\* short, with a letter, and longer than seven digits
Id02 == <<"0", "2", "-", "0", "0", "0", "0", "0">>
Id04 == <<"0", "4", "-", "0", "0", "0", "0", "0">>
IdMalformed == <<"0", "2", "-", "A", "0", "0", "0", "0">>
Id12 == <<"0", "2", "0", "0", "0", "0", "0", "0", "0", "0", "0", "1">>
Id12Other == <<"0", "2", "0", "0", "0", "0", "0", "0", "0", "0", "0", "2">>
IdDotted == <<"0", "2", ".", "0", "0", "0", "0", "0">>
IdShort == <<"2", "-", "1">>

UnitIds == {Id02, Id04, IdMalformed, Id12, Id12Other, IdDotted, IdShort, <<>>}

ConvertUnitIdCall ==
    /\ ncalls < MaxCalls
    /\ \E unit_id \in UnitIds :
          call' = Called([op |-> "_convert_unit_id",
                          records |-> <<unit_id>>,
                          ret |-> _convert_unit_id(unit_id)])
    /\ ncalls' = ncalls + 1
    /\ UNCHANGED <<db, pc, loc, errors>>

NextClassifier == MapVariableCall \/ ConvertUnitIdCall

SpecClassifier == InitClassifier /\ [][NextClassifier]_vars

\* the keywords of the rules
RuleKeywords ==
    {Kw_gminne, Kw_komunalne, Kw_skarbu_panstwa, Kw_skarb_panstwa,
     Kw_spoldzielni, Kw_spoldzielcz, Kw_tbs, Kw_budownictwa_spolecznego,
     Kw_wspolnot, Kw_innych_podmiotow, Kw_inne_podmioty, Kw_zakladow_pracy,
     Kw_zaklady_pracy}

\* C12: _map_variable_to_cost_type sends each of the seven labels of
\* COST_TYPE_MAPPING to the (code, category) pair the table lists for it,
\* and returns None for every label that, with its diacritics removed and
\* in lower case, contains none of the rule keywords.
C12_ClassifierAgreesWithTable ==
    call.op = "_map_variable_to_cost_type" =>
        LET variable_name == call.records[1]
        IN  /\ \A i \in 1..Len(COST_TYPE_MAPPING) :
                  variable_name = COST_TYPE_MAPPING[i].label
                      => call.ret = COST_TYPE_MAPPING[i].typ
            /\ (\A kw \in RuleKeywords : ~Contains(normalize(variable_name), kw))
                  => call.ret = Unmapped

\* the label of the TBS stock, which holds a Polish letter and capitals,
\* was classified
C12_Witness ==
    /\ call.op = "_map_variable_to_cost_type"
    /\ call.records[1] = LabelTBS
    /\ call.ret = CostType("ZASOBY_TBS", "SPOLECZNE")

\* C22: the classifier tries its rules in the order gminne/komunalne, skarbu
\* panstwa, spoldzielni, tbs/budownictwa spolecznego, wspolnot, innych
\* podmiotow, zakladow pracy, and the first rule that matches wins: a label
\* with keywords of two rules gets the pair of the earlier rule, and every
\* result other than None is one of the seven pairs, its category being one
\* of PUBLICZNE, SPOLDZIELCZE, SPOLECZNE, PRYWATNE.
C22_FirstMatchingRuleWins ==
    call.op = "_map_variable_to_cost_type" =>
        LET matching == MatchingRules(normalize(call.records[1]))
        IN  /\ \A i \in matching :
                  (\A j \in matching : i <= j) => call.ret = KeywordRules[i].typ
            /\ matching = {} <=> call.ret = Unmapped
            /\ call.ret # Unmapped =>
                  /\ \E i \in 1..Len(KeywordRules) : call.ret = KeywordRules[i].typ
                  /\ call.ret.kategoria \in VALID_KATEGORIE

\* a label that names the cooperatives before the State Treasury matches
\* the third and the second rule and was classified by the second
C22_Witness ==
    /\ call.op = "_map_variable_to_cost_type"
    /\ call.records[1] = LabelSpoldzielnieSkarbuPanstwa
    /\ MatchingRules(normalize(call.records[1])) = {2, 3}
    /\ call.ret = CostType("ZASOBY_SKARBU_PANSTWA", "PUBLICZNE")

\* an identifier without the characters that are neither digits nor letters
RECURSIVE StripSeparators(_)
StripSeparators(s) ==
    IF Len(s) = 0 THEN <<>>
    ELSE (IF \/ s[1] \in DigitSet
             \/ \E i \in 1..Len(Upper) : s[1] \in {Upper[i], Lower[i]}
          THEN <<s[1]>> ELSE <<>>) \o StripSeparators(Tail(s))

\* C24: the unit code derived from a raw identifier is the identifier
\* without its non-alphanumeric separators, padded with zeros on the left
\* to 7 characters; no digit is dropped, so an identifier that differs from
\* it after stripping never yields the same code.
C24_UnitCodeKeepsEveryDigit ==
    call.op = "_convert_unit_id" =>
        LET unit_id == call.records[1]
        IN  /\ call.ret = Zfill(StripSeparators(unit_id), 7)
            /\ \A other \in UnitIds :
                  StripSeparators(other) # StripSeparators(unit_id)
                      => _convert_unit_id(other) # call.ret

-----------------------------------------------------------------------------
(* src/src/etl.py: ETLPipeline.run, one storage or API call per step.  A   *)
(* call may raise wherever the code makes one (Raise); a raised exception  *)
(* is str(e) = the name of the step it left.                               *)

\* ETLPipeline._finish_import: UPDATE log_import SET ... WHERE id = :import_id
_finish_import(d, import_id, status, processed, inserted, failed, source_hash, message) ==
    [d EXCEPT !.log_import =
        {IF r.id = import_id
         THEN [r EXCEPT !.status = status,
                        !.rows_processed = processed,
                        !.rows_inserted = inserted,
                        !.rows_failed = failed,
                        !.source_hash = source_hash,
                        !.error_message = message]
         ELSE r : r \in @}]

\* ValidationErrorRepository.save_errors: one session, one INSERT per error
RECURSIVE save_errors(_, _, _, _)
save_errors(d, errs, k, import_id) ==
    IF k > Len(errs) THEN d
    ELSE LET id == NextVal(d, "validation_errors")
         IN  save_errors(
                [d EXCEPT !.seq["validation_errors"] = id,
                          !.validation_errors = @ \cup
                            {[id |-> id, import_id |-> import_id,
                              record_data |-> errs[k].record_data,
                              error_type |-> errs[k].error_type,
                              error_field |-> errs[k].error_field,
                              error_message |-> errs[k].error_message,
                              raw_value |-> errs[k].raw_value]}],
                errs, k + 1, import_id)

Min(S) == CHOOSE x \in S : \A y \in S : x <= y
Max(S) == CHOOSE x \in S : \A y \in S : x >= y

\* ETLPipeline._save_quality_report: INSERT INTO data_quality_report; of the
\* statistics the row keeps min_value and max_value here (avg, median and
\* stddev are floats no step reads back)
_save_quality_report(d, import_id, validation, all_records) ==
    LET values == {all_records[k].wartosc.i : k \in 1..Len(all_records)}
        id == NextVal(d, "data_quality_report")
    IN  [d EXCEPT !.seq["data_quality_report"] = id,
                  !.data_quality_report = @ \cup
                    {[id |-> id, import_id |-> import_id,
                      total_rows |-> validation.total_input,
                      null_count |-> validation.error_count,
                      validation_passed |-> (validation.error_count = 0),
                      issues |-> [k \in 1..(IF Len(validation.errors) < 100
                                            THEN Len(validation.errors) ELSE 100) |->
                                    [type |-> validation.errors[k].error_type,
                                     field |-> validation.errors[k].error_field,
                                     message |-> validation.errors[k].error_message]],
                      min_value |-> IF values = {} THEN None ELSE Num(Min(values)),
                      max_value |-> IF values = {} THEN None ELSE Num(Max(values))]}]

ETLResult(success, import_id, processed, inserted, failed, validation_result, message) ==
    [tag |-> "ETLResult",
     success |-> success,
     import_id |-> import_id,
     records_processed |-> processed,
     records_inserted |-> inserted,
     records_failed |-> failed,
     validation_result |-> validation_result,
     error_message |-> message]

\* the raw records of GUSApiClient.fetch_p3961_data
Obs(year, val) == [year |-> year, val |-> val]

Raw(id, name, variable_name, values) ==
    [id |-> Str(id), name |-> Str(<<name>>),
     variable_name |-> Str(variable_name), values |-> values]


\* one region, one observation
DatasetA ==
    [data |-> <<Raw(Id02, "DOLNOSLASKIE", LabelGminne, <<Obs(Num(2022), Num(1000))>>)>>,
     data_hash |-> Str(<<"hashA">>)]

\* a year out of range, a missing value, and the key of DatasetA again
DatasetB ==
    [data |-> <<Raw(Id02, "DOLNOSLASKIE", LabelGminne,
                    <<Obs(Num(2022), Num(1500)), Obs(Num(1999), Num(5))>>),
                Raw(Id04, "KUJAWSKO-POMORSKIE", LabelTBS,
                    <<Obs(Num(2022), None), Obs(Num(2020), Num(7))>>)>>,
     data_hash |-> Str(<<"hashB">>)]

\* a malformed unit code and a label the classifier does not know
DatasetC ==
    [data |-> <<Raw(IdMalformed, "DOLNOSLASKIE", LabelGminne, <<Obs(Num(2022), Num(3))>>),
                Raw(Id04, "KUJAWSKO-POMORSKIE", LabelUnknown,
                    <<Obs(Num(2022), Num(4))>>)>>,
     data_hash |-> Str(<<"hashC">>)]

\* a year that int() cannot convert
DatasetD ==
    [data |-> <<Raw(Id02, "DOLNOSLASKIE", LabelGminne,
                    <<Obs(Str(<<"r", "o", "k">>), Num(1000))>>)>>,
     data_hash |-> Str(<<"hashD">>)]

Datasets == {DatasetA, DatasetB, DatasetC, DatasetD}

UnitLevels == {2, 3}

Set(p, l) == loc' = [loc EXCEPT ![p] = l]
Goto(p, label) == pc' = [pc EXCEPT ![p] = label]

\* run is called: start_time, import_id = None
Run(p) ==
    /\ pc[p] \in {"idle", "returned", "raised"}
    /\ ncalls < MaxRuns
    /\ \E unit_level \in UnitLevels : Set(p, [IdleLoc EXCEPT !.unit_level = unit_level])
    /\ Goto(p, "start")
    /\ ncalls' = ncalls + 1
    /\ UNCHANGED <<db, errors, call>>

\* import_id = self._start_import("GUS API P3961")
StartImport(p) ==
    /\ pc[p] = "start"
    /\ LET r == _start_import(db, "GUS API P3961")
       IN  /\ db' = r.db
           /\ Set(p, [loc[p] EXCEPT !.import_id = Num(r.row.id)])
    /\ Goto(p, "fetch")
    /\ UNCHANGED <<errors, call, ncalls>>

\* dataset = self.api_client.fetch_p3961_data(...)
Fetch(p) ==
    /\ pc[p] = "fetch"
    /\ \E dataset \in Datasets : Set(p, [loc[p] EXCEPT !.dataset = dataset])
    /\ Goto(p, "transform")
    /\ UNCHANGED <<db, errors, call, ncalls>>

\* transformed = self._transform(dataset.data, unit_level)
Transform(p) ==
    /\ pc[p] = "transform"
    /\ LET r == _transform(loc[p].dataset.data, loc[p].unit_level)
       IN  IF r.raises
           THEN /\ Set(p, [loc[p] EXCEPT !.error = "transform"])
                /\ Goto(p, "except")
           ELSE /\ Set(p, [loc[p] EXCEPT !.transformed = r.rows])
                /\ Goto(p, "validate")
    /\ UNCHANGED <<db, errors, call, ncalls>>

\* validation_result = self.validator.validate_raw_batch(transformed)
Validate(p) ==
    /\ pc[p] = "validate"
    /\ LET r == validate_raw_batch(errors, loc[p].transformed)
       IN  /\ errors' = r.errors
           /\ Set(p, [loc[p] EXCEPT !.validation_result = r.result])
    /\ Goto(p, "save_errors")
    /\ UNCHANGED <<db, call, ncalls>>

\* if validation_result.errors: self.error_repo.save_errors(...); then the
\* in-batch maps of _load_dimensions are built
SaveErrors(p) ==
    /\ pc[p] = "save_errors"
    /\ db' = save_errors(db, loc[p].validation_result.errors, 1, loc[p].import_id.i)
    /\ \E okres_order \in Orders(Okresy(loc[p].validation_result.valid_records)) :
          LET work == DimensionWork(loc[p].validation_result.valid_records, okres_order)
          IN  /\ Set(p, [loc[p] EXCEPT !.work = work])
              /\ Goto(p, IF work = <<>> THEN "finish_success" ELSE "dim_lookup")
    /\ UNCHANGED <<errors, call, ncalls>>

\* the upsert at the head of the work is over
DimensionDone(p, d) ==
    /\ db' = d
    /\ Set(p, [loc[p] EXCEPT !.work = Tail(@)])
    /\ Goto(p, IF Len(loc[p].work) = 1 THEN "load_facts" ELSE "dim_lookup")

\* existing = self.queries.get_dim_...(key); if existing: return existing["id"]
DimLookup(p) ==
    /\ pc[p] = "dim_lookup"
    /\ LET w == Head(loc[p].work)
           existing == CASE w.table = "dim_jednostka" -> get_dim_jednostka(db, w.data.kod_gus)
                         [] w.table = "dim_typ_kosztu" -> get_dim_typ_kosztu(db, w.data.kod)
                         [] OTHER -> get_dim_okres(db, w.data)
       IN  IF Found(existing) THEN DimensionDone(p, db)
           ELSE /\ Goto(p, "dim_insert")
                /\ UNCHANGED <<db, loc>>
    /\ UNCHANGED <<errors, call, ncalls>>

\* result = self.db.fetch_one(INSERT ... ON CONFLICT ... RETURNING id)
DimInsert(p) ==
    /\ pc[p] = "dim_insert"
    /\ LET w == Head(loc[p].work)
           r == CASE w.table = "dim_jednostka" -> InsertJednostka(db, w.data)
                  [] w.table = "dim_typ_kosztu" -> InsertTypKosztu(db, w.data)
                  [] OTHER -> InsertOkres(db, w.data)
       IN  IF r.error # ""
           THEN /\ db' = r.db
                /\ Set(p, [loc[p] EXCEPT !.error = r.error])
                /\ Goto(p, "except")
           ELSE DimensionDone(p, r.db)
    /\ UNCHANGED <<errors, call, ncalls>>

\* one round of the loop of _load_facts
LoadFactStep(p) ==
    /\ pc[p] = "load_facts"
    /\ LET records == loc[p].validation_result.valid_records
           st == LoadFact([db |-> db, inserted |-> loc[p].inserted],
                          records[loc[p].i], loc[p].import_id.i)
       IN  /\ db' = st.db
           /\ Set(p, [loc[p] EXCEPT !.inserted = st.inserted, !.i = @ + 1])
           /\ Goto(p, IF loc[p].i = Len(records) THEN "finish_success" ELSE "load_facts")
    /\ UNCHANGED <<errors, call, ncalls>>

\* the SUCCESS finalization with rows_processed taken from the valid records
FinishSuccessCountsValid(p) ==
    /\ pc[p] = "finish_success"
    /\ db' = _finish_import(db, loc[p].import_id.i, "SUCCESS",
                            loc[p].validation_result.valid_count, loc[p].inserted,
                            loc[p].validation_result.error_count,
                            loc[p].dataset.data_hash, None)
    /\ Goto(p, "quality_report")
    /\ UNCHANGED <<loc, errors, call, ncalls>>

\* self._finish_import(import_id=import_id, status="SUCCESS", ...)
FinishSuccess(p) ==
    /\ pc[p] = "finish_success"
    /\ db' = _finish_import(db, loc[p].import_id.i, "SUCCESS",
                            Len(loc[p].transformed), loc[p].inserted,
                            loc[p].validation_result.error_count,
                            loc[p].dataset.data_hash, None)
    /\ Goto(p, "quality_report")
    /\ UNCHANGED <<loc, errors, call, ncalls>>

\* self._save_quality_report(...); return ETLResult(success=True, ...)
QualityReport(p) ==
    /\ pc[p] = "quality_report"
    /\ db' = _save_quality_report(db, loc[p].import_id.i, loc[p].validation_result,
                                  loc[p].transformed)
    /\ Set(p, [loc[p] EXCEPT !.result =
                ETLResult(TRUE, loc[p].import_id.i, Len(loc[p].transformed),
                          loc[p].inserted, loc[p].validation_result.error_count,
                          loc[p].validation_result, None)])
    /\ Goto(p, "returned")
    /\ UNCHANGED <<errors, call, ncalls>>

\* the steps that call the storage or the API, each of which may raise
MakesCall(p) ==
    \/ pc[p] \in {"start", "fetch", "dim_lookup", "dim_insert", "load_facts",
                  "finish_success", "quality_report"}
    \/ pc[p] = "save_errors" /\ loc[p].validation_result.errors # <<>>

\* the call raises and the fact rows the run has written are rolled back
\* with it, as if the run were one transaction
RaiseRollsBackFacts(p) ==
    /\ MakesCall(p)
    /\ Set(p, [loc[p] EXCEPT !.error = pc[p]])
    /\ Goto(p, "except")
    /\ db' = IF Truthy(loc[p].import_id)
             THEN [db EXCEPT !.fact_koszty =
                        {f \in @ : f.import_id # loc[p].import_id.i}]
             ELSE db
    /\ UNCHANGED <<errors, call, ncalls>>

\* the call raises: its statement is rolled back, control goes to
\* "except Exception as e"
Raise(p) ==
    /\ MakesCall(p)
    /\ Set(p, [loc[p] EXCEPT !.error = pc[p]])
    /\ Goto(p, "except")
    /\ UNCHANGED <<db, errors, call, ncalls>>

FailureResult(l) ==
    ETLResult(FALSE, IF Truthy(l.import_id) THEN l.import_id.i ELSE 0, 0, 0, 0,
              NoValidation, Str(<<l.error>>))

\* except Exception as e: if import_id: self._finish_import(status="FAILED",
\* error_message=str(e)); return ETLResult(success=False, ...)
Except(p) ==
    /\ pc[p] = "except"
    /\ db' = IF Truthy(loc[p].import_id)
             THEN _finish_import(db, loc[p].import_id.i, "FAILED", 0, 0, 0, None,
                                 Str(<<loc[p].error>>))
             ELSE db
    /\ Set(p, [loc[p] EXCEPT !.result = FailureResult(loc[p])])
    /\ Goto(p, "returned")
    /\ UNCHANGED <<errors, call, ncalls>>

\* _finish_import raises inside the except block: nothing catches it, the
\* exception leaves run
ExceptRaises(p) ==
    /\ pc[p] = "except"
    /\ Truthy(loc[p].import_id)
    /\ Goto(p, "raised")
    /\ UNCHANGED <<db, loc, errors, call, ncalls>>

\* the storage after one earlier run of DatasetA at unit_level 2 that succeeded
SeededDb ==
    LET d1 == _start_import(EmptyDb, "GUS API P3961").db
        rows == _transform(DatasetA.data, 2).rows
        d2 == _load_dimensions(d1, rows, <<Num(2022)>>)
        st == _load_facts(d2, rows, 1)
        d3 == _finish_import(st.db, 1, "SUCCESS", 1, st.inserted, 0,
                             DatasetA.data_hash, None)
    IN  _save_quality_report(d3, 1, ValidationResult(rows, <<>>), rows)

Init ==
    /\ db \in {EmptyDb, SeededDb}
    /\ IdlePipelines
    /\ errors = <<>>
    /\ call = NoCall
    /\ ncalls = 0

\* one pipeline, its runs one after the other
Next ==
    \/ Run(1) \/ StartImport(1) \/ Fetch(1) \/ Transform(1) \/ Validate(1)
    \/ SaveErrors(1) \/ DimLookup(1) \/ DimInsert(1) \/ LoadFactStep(1)
    \/ FinishSuccess(1) \/ QualityReport(1) \/ Raise(1) \/ Except(1)
    \/ ExceptRaises(1)

Spec == Init /\ [][Next]_vars

-----------------------------------------------------------------------------
(* Claims about ETLPipeline.run, checked under Spec.                       *)

\* run has ended: it returned, or an exception left it
Ended(p) == pc[p] \in {"returned", "raised"}

ImportRunOf(p) == {r \in db.log_import : r.id = loc[p].import_id.i}

\* C1: once a run that created its ImportRun row has ended, whichever
\* later step failed, the row is no longer RUNNING: it is SUCCESS or FAILED.
C1_NeverLeftRunning ==
    \A p \in Procs :
        (Ended(p) /\ Truthy(loc[p].import_id)) =>
            \A r \in ImportRunOf(p) : r.status \in {"SUCCESS", "FAILED"}

\* C2: an ImportRun row leaves RUNNING once, to one terminal state: a row
\* written SUCCESS is never afterwards written FAILED, nor a FAILED row
\* SUCCESS.
C2_OneTerminalState ==
    [][\A r \in db.log_import : \A q \in db'.log_import :
          (r.id = q.id /\ r.status \in {"SUCCESS", "FAILED"})
              => q.status = r.status]_vars

\* C3: run never raises to its caller for a failure after the ImportRun
\* row was created: it returns an ETLResult with success = false and a
\* non-null error_message.
C3_NeverRaises ==
    \A p \in Procs :
        /\ (pc[p] = "raised") => ~Truthy(loc[p].import_id)
        /\ (pc[p] = "returned" /\ loc[p].error # "") =>
                /\ loc[p].result.success = FALSE
                /\ loc[p].result.error_message # None

\* the run has transformed the raw record of scenario A: unit id "02-00000",
\* name DOLNOSLASKIE, label "zasoby gminne (komunalne)", the observation
\* (2022, 1000.0), at unit_level 2
TransformedScenarioA(p) ==
    /\ pc[p] = "validate"
    /\ loc[p].dataset = DatasetA
    /\ loc[p].unit_level = 2

ScenarioARow(parent) ==
    [kod_jednostki |-> Str(<<"0", "2", "0", "0", "0", "0", "0">>),
     nazwa_jednostki |-> Str(<<"DOLNOSLASKIE">>),
     poziom |-> Str(<<"WOJEWODZTWO">>),
     kod_wojewodztwa |-> parent,
     typ_kosztu_kod |-> Str(<<"ZASOBY_GMINNE">>),
     typ_kosztu_nazwa |-> Str(LabelGminne),
     kategoria |-> Str(<<"PUBLICZNE">>),
     rok |-> Num(2022),
     wartosc |-> Num(1000)]

\* C13 as stated: the raw record of scenario A, transformed at unit_level 2,
\* yields one candidate row with unit code "0200000", level WOJEWODZTWO,
\* cost type ZASOBY_GMINNE, category PUBLICZNE, year 2022, value 1000.0 and
\* a null parent-region code.
C13_ScenarioA_NullParent ==
    \A p \in Procs :
        TransformedScenarioA(p) => loc[p].transformed = <<ScenarioARow(None)>>

\* C13 as amended: the same row, its parent-region code "0200000" (the
\* first two digits of the unit code and five zeros).
C13_ScenarioA ==
    \A p \in Procs :
        TransformedScenarioA(p) =>
            loc[p].transformed =
                <<ScenarioARow(Str(<<"0", "2", "0", "0", "0", "0", "0">>))>>

C13_Witness ==
    /\ TransformedScenarioA(1)
    /\ Len(loc[1].transformed) = 1

\* an observation with a record-level data problem: its label is one the
\* classifier maps, and its unit code is malformed, its year is no integer
\* or one outside MIN_ROK..MAX_ROK, or its value is missing
Offending(record, val) ==
    /\ _map_variable_to_cost_type(record.variable_name.s) # Unmapped
    /\ \/ \E i \in 1..Len(record.id.s) : record.id.s[i] \notin DigitSet \cup {"-"}
       \/ ~\E n \in MIN_ROK..MAX_ROK : Denotes(Get(val.year), n)
       \/ IsNull(val.val)

OffendingCount(data) ==
    Cardinality(UNION {{<<i, k>> : k \in {j \in 1..Len(data[i].values) :
                                           Offending(data[i], data[i].values[j])}} :
                       i \in 1..Len(data)})

ValidationErrorsOf(p) ==
    {e \in db.validation_errors : e.import_id = loc[p].import_id.i}

\* C14: record-level data problems in a fetched batch never fail the run:
\* a run none of whose storage or API calls failed ends SUCCESS, hands only
\* well-formed rows to the loaders, and has persisted one validation error
\* with its own id for each offending row, all of them counted in
\* records_failed.
C14_RecordErrorsNeverFailRun ==
    \A p \in Procs :
        (pc[p] = "returned" /\ loc[p].error \in {"", "transform"}) =>
            LET n == OffendingCount(loc[p].dataset.data)
                valid_records == loc[p].validation_result.valid_records
            IN  /\ loc[p].result.success = TRUE
                /\ \A r \in ImportRunOf(p) : r.status = "SUCCESS"
                /\ \A k \in 1..Len(valid_records) : WellFormed(valid_records[k])
                /\ Cardinality(ValidationErrorsOf(p)) = n
                /\ loc[p].result.records_failed = n

\* the run has returned after the storage raised at the upsert of
\* valid_records[loc[p].i], the only call of the run that failed
FactLoadFailed(p) == pc[p] = "returned" /\ loc[p].error = "load_facts"

ReturnedSuccess(p) ==
    /\ pc[p] = "returned"
    /\ loc[p].result.success = TRUE

\* C16: for a run that returns success = true, records_processed is the
\* number of rows the transformer emitted and equals valid_count +
\* records_failed; records_failed is the validator's error_count; the
\* loaders worked on the valid records, all of which resolve in a
\* sequential run, so records_inserted = valid_count and every valid record
\* has its dimension rows and its fact; the ImportRun row stores the same
\* three counts and the source hash.
C16_SuccessCounts ==
    \A p \in Procs :
        ReturnedSuccess(p) =>
            LET res == loc[p].result
                v == loc[p].validation_result
                emitted == _transform(loc[p].dataset.data, loc[p].unit_level).rows
            IN  /\ res.records_processed = Len(emitted)
                /\ res.records_processed = v.valid_count + res.records_failed
                /\ res.records_failed = v.error_count
                /\ res.records_failed = Len(v.errors)
                /\ v.valid_count = Len(v.valid_records)
                /\ res.records_inserted <= v.valid_count
                /\ \A k \in 1..Len(v.valid_records) :
                      /\ NaturallyResolved(db, v.valid_records[k])
                      /\ FactsUnder(db, v.valid_records[k]) # {}
                /\ res.records_inserted = v.valid_count
                /\ ImportRunOf(p) # {}
                /\ \A r \in ImportRunOf(p) :
                      /\ r.status = "SUCCESS"
                      /\ r.rows_processed = res.records_processed
                      /\ r.rows_inserted = res.records_inserted
                      /\ r.rows_failed = res.records_failed
                      /\ r.source_hash = loc[p].dataset.data_hash

\* a run of three candidate rows, one of them rejected, returned success
C16_Witness ==
    /\ ReturnedSuccess(1)
    /\ loc[1].result.records_processed = 3
    /\ loc[1].result.records_inserted = 2
    /\ loc[1].result.records_failed = 1

QualityReportsOf(p) ==
    {q \in db.data_quality_report : q.import_id = loc[p].import_id.i}

\* C17: once a run that created an ImportRun has ended, SUCCESS or FAILED,
\* one DataQualityReport row exists for that ImportRun, never none and
\* never two.
C17_OneQualityReportPerRun ==
    \A p \in Procs :
        (/\ Ended(p)
         /\ Truthy(loc[p].import_id)
         /\ \A r \in ImportRunOf(p) : r.status \in {"SUCCESS", "FAILED"})
            => Cardinality(QualityReportsOf(p)) = 1

FactsWrittenBy(p) == {f \in db.fact_koszty : f.import_id = loc[p].import_id.i}

\* C18: within a run every dimension upsert of the batch is over before
\* the first fact upsert starts: while a dimension upsert is pending the
\* run has written no fact, and the fact load starts with the unit, the
\* cost type and the period of every valid row stored; so the three lookups
\* of every valid row resolve and a fact load that no failure interrupts
\* skips no valid row.
C18_DimensionsBeforeFacts ==
    \A p \in Procs :
        LET records == loc[p].validation_result.valid_records
        IN  /\ pc[p] \in {"dim_lookup", "dim_insert"} =>
                  /\ loc[p].work # <<>>
                  /\ loc[p].inserted = 0
                  /\ FactsWrittenBy(p) = {}
            /\ pc[p] = "load_facts" =>
                  /\ loc[p].work = <<>>
                  /\ \A k \in 1..Len(records) :
                        /\ NaturallyResolved(db, records[k])
                        /\ Resolves(db, records[k])
                  /\ loc[p].inserted = loc[p].i - 1
            /\ pc[p] \in {"finish_success", "quality_report"} =>
                  loc[p].inserted = Len(records)

\* the first of two valid rows has been loaded as a fact, the second is next
C18_Witness ==
    /\ pc[1] = "load_facts"
    /\ loc[1].i = 2
    /\ Len(loc[1].validation_result.valid_records) = 2
    /\ FactsWrittenBy(1) # {}

\* C19: the DataQualityReport of a run is persisted before its ImportRun
\* is finalized as SUCCESS: no ImportRun is SUCCESS while it has no quality
\* report.
C19_ReportBeforeSuccess ==
    \A r \in db.log_import :
        r.status = "SUCCESS" =>
            \E q \in db.data_quality_report : q.import_id = r.id

\* C23: whatever unit_level a run is given, every candidate row that
\* _transform emitted, and every unit row stored, carries a level that is
\* one of POLSKA, WOJEWODZTWO, POWIAT.
C23_LevelsRecognized ==
    /\ \A p \in Procs : \A i \in 1..Len(loc[p].transformed) :
           loc[p].transformed[i].poziom \in {Str(<<v>>) : v \in VALID_POZIOMY}
    /\ \A j \in db.dim_jednostka : j.poziom \in {Str(<<v>>) : v \in VALID_POZIOMY}

\* C26: a fact row that a later run's upsert overwrites keeps its id, its
\* key and its import_id, only its value changes; a row that a run creates
\* carries that run's import_id.  So a fact's import_id always names the
\* run that created the row, not the run that wrote its current value.
C26_ImportIdOfCreatingRun ==
    [][/\ \A f \in db.fact_koszty :
             \E g \in db'.fact_koszty :
                /\ g.id = f.id
                /\ SameFactKey(g, f)
                /\ g.import_id = f.import_id
       /\ \A g \in db'.fact_koszty :
             (\A f \in db.fact_koszty : f.id # g.id) =>
                \E p \in Procs : pc[p] = "load_facts" /\ g.import_id = loc[p].import_id.i]_vars

\* the second run has overwritten the value of the fact that the first run
\* created, and the row still refers to the first run
C26_Witness ==
    /\ pc[1] = "returned"
    /\ loc[1].import_id = Num(2)
    /\ loc[1].inserted > 0
    /\ \E f \in db.fact_koszty :
          /\ f.import_id = 1
          /\ f \notin SeededDb.fact_koszty
          /\ \E g \in SeededDb.fact_koszty : g.id = f.id /\ g.wartosc # f.wartosc

-----------------------------------------------------------------------------
(* SpecConcurrent: two runs that have started their imports and validated  *)
(* their batches interleave the statements of _load_dimensions; every      *)
(* storage call succeeds.                                                  *)

TwoImports == _start_import(_start_import(EmptyDb, "GUS API P3961").db, "GUS API P3961").db

AtLoadDimensions(id, records, okres_order) ==
    [IdleLoc EXCEPT !.import_id = Num(id),
                    !.transformed = records,
                    !.validation_result = ValidationResult(records, <<>>),
                    !.work = DimensionWork(records, okres_order)]

InitConcurrent ==
    /\ db = TwoImports
    /\ \E b1, b2 \in SeqsUpTo(LoaderRows, MaxConcurrentBatch) \ {<<>>} :
       \E o1 \in Orders(Okresy(b1)) : \E o2 \in Orders(Okresy(b2)) :
          loc = [p \in Procs |-> IF p = 1 THEN AtLoadDimensions(1, b1, o1)
                                 ELSE AtLoadDimensions(2, b2, o2)]
    /\ pc = [p \in Procs |-> "dim_lookup"]
    /\ errors = <<>>
    /\ call = NoCall
    /\ ncalls = 0

NextConcurrent == \E p \in Procs : DimLookup(p) \/ DimInsert(p)

SpecConcurrent == InitConcurrent /\ [][NextConcurrent]_vars

\* the natural keys of the batch a run loads
BatchKeys(p) ==
    LET records == loc[p].validation_result.valid_records
    IN  [kod_gus |-> {records[i].kod_jednostki : i \in 1..Len(records)},
         kod |-> {records[i].typ_kosztu_kod : i \in 1..Len(records)},
         rok |-> {records[i].rok : i \in 1..Len(records)}]

\* C6: however two runs interleave the lookups and inserts of their
\* dimension get-or-create steps, no natural key is ever stored twice and
\* neither run fails with a key conflict; when both have finished, each
\* key of either batch is stored in one row, and that row's id is what a
\* lookup returns.
C6_ConcurrentGetOrCreate ==
    /\ NoDuplicateNaturalKey(db)
    /\ \A p \in Procs : pc[p] # "except"
    /\ (\A p \in Procs : pc[p] = "load_facts") =>
          \A p \in Procs :
             /\ \A k \in BatchKeys(p).kod_gus :
                   /\ Cardinality({r \in db.dim_jednostka : r.kod_gus = k}) = 1
                   /\ \A r \in db.dim_jednostka :
                         r.kod_gus = k => get_dim_jednostka_id(db, k) = Num(r.id)
             /\ \A k \in BatchKeys(p).kod :
                   /\ Cardinality({r \in db.dim_typ_kosztu : r.kod = k}) = 1
                   /\ \A r \in db.dim_typ_kosztu :
                         r.kod = k => get_dim_typ_kosztu_id(db, k) = Num(r.id)
             /\ \A k \in BatchKeys(p).rok :
                   /\ Cardinality({r \in db.dim_okres : r.rok = k}) = 1
                   /\ \A r \in db.dim_okres :
                         r.rok = k => get_dim_okres_id(db, k) = Num(r.id)

\* both runs looked a unit up before either inserted it, both inserted,
\* and both have finished: the insert of the second met the row of the first
C6_Witness ==
    /\ \A p \in Procs : pc[p] = "load_facts"
    /\ db.seq["dim_jednostka"] > Cardinality(db.dim_jednostka)
    /\ db.seq["dim_okres"] > Cardinality(db.dim_okres)
    /\ BatchKeys(1).kod_gus \cap BatchKeys(2).kod_gus # {}

-----------------------------------------------------------------------------
(* src/src/scheduler.py and GUSDataCache of src/src/api_client.py.  In     *)
(* SpecScheduler db holds what outlives a job: the files of the cache      *)
(* directory, oldest first, and the version of the data the API serves.    *)

\* GUSApiClient._calculate_hash: sha256 of the JSON text of the records
_calculate_hash(data) == [sha256 |-> data]

\* GUSApiClient.fetch_p3961_data as check_for_updates sees it: the records
\* the API serves; or no record, when _request gave None for the variables
\* (a 404, or 429 on every attempt) and the page loop stopped at it; or the
\* exception of the last failed attempt
FetchOutcomes(source) ==
    {[raises |-> FALSE, data |-> <<source>>, data_hash |-> _calculate_hash(<<source>>)],
     [raises |-> FALSE, data |-> <<>>, data_hash |-> _calculate_hash(<<>>)],
     [raises |-> TRUE, data |-> <<>>, data_hash |-> None]}

\* GUSDataCache.save: one more file, named by subject and fetched_at; the
\* wall clock does not run backwards, so it sorts last
save(cache, dataset) == Append(cache, [data |-> dataset.data, data_hash |-> dataset.data_hash])

\* GUSDataCache.load_latest: the file whose name sorts last, None without files
load_latest(cache) == IF cache = <<>> THEN None ELSE cache[Len(cache)]

\* GUSDataCache.get_latest_hash
get_latest_hash(cache) ==
    LET dataset == load_latest(cache)
    IN  IF dataset = None THEN None ELSE dataset.data_hash

\* GUSDataCache.has_changed
has_changed(cache, new_hash) == get_latest_hash(cache) # new_hash

\* Scheduler.check_for_updates on the outcome of its fetch: the cache
\* after it and the value returned
check_for_updates(cache, dataset) ==
    IF dataset.raises THEN [cache |-> cache, ret |-> FALSE]
    ELSE IF has_changed(cache, dataset.data_hash)
    THEN [cache |-> save(cache, dataset), ret |-> TRUE]
    ELSE [cache |-> cache, ret |-> FALSE]

\* Scheduler.run_etl: ETLPipeline.run returned success, returned a failure,
\* or raised; run_etl returns True only for the first
EtlOutcomes == {"success", "failed", "raised"}

NoJob == [op |-> "none", has_updates |-> FALSE, etl |-> "none", detected |-> 0]

InitScheduler ==
    /\ db = [cache |-> <<>>, source |-> 1]
    /\ IdlePipelines
    /\ errors = <<>>
    /\ call = NoJob
    /\ ncalls = 0

\* Scheduler.daily_check; detected: the version the API served at the
\* latest daily_check that reported a change
DailyCheckCall ==
    /\ ncalls < MaxCalls
    /\ \E dataset \in FetchOutcomes(db.source), outcome \in EtlOutcomes :
          LET has_updates == check_for_updates(db.cache, dataset)
          IN  /\ db' = [db EXCEPT !.cache = has_updates.cache]
              /\ call' = [op |-> "daily_check",
                          has_updates |-> has_updates.ret,
                          etl |-> IF has_updates.ret THEN outcome ELSE "none",
                          detected |-> IF has_updates.ret THEN db.source
                                       ELSE call.detected]
    /\ ncalls' = ncalls + 1
    /\ UNCHANGED <<pc, loc, errors>>

\* Scheduler.weekly_job: the same check, then run_etl whatever it returned
WeeklyJobCall ==
    /\ ncalls < MaxCalls
    /\ \E dataset \in FetchOutcomes(db.source), outcome \in EtlOutcomes :
          LET has_updates == check_for_updates(db.cache, dataset)
          IN  /\ db' = [db EXCEPT !.cache = has_updates.cache]
              /\ call' = [op |-> "weekly_job",
                          has_updates |-> has_updates.ret,
                          etl |-> outcome,
                          detected |-> call.detected]
    /\ ncalls' = ncalls + 1
    /\ UNCHANGED <<pc, loc, errors>>

\* the statistics office publishes new data
SourceChanges ==
    /\ db.source < MaxVersions
    /\ db' = [db EXCEPT !.source = @ + 1]
    /\ UNCHANGED <<pc, loc, errors, call, ncalls>>

NextScheduler == DailyCheckCall \/ WeeklyJobCall \/ SourceChanges

SpecScheduler == InitScheduler /\ [][NextScheduler]_vars

\* C27: daily_check runs the ETL iff check_for_updates reports a change,
\* and the fetched dataset is in the cache before the ETL starts; so once
\* a daily_check has reported a change, no later daily_check made while
\* the API still serves the same data runs the ETL, whether the ETL run
\* it triggered succeeded or failed.
C27_NoEtlWhileSourceUnchanged ==
    [][(ncalls' = ncalls + 1 /\ call'.op = "daily_check") =>
          /\ call'.etl # "none" <=> call'.has_updates
          /\ call'.has_updates =>
                get_latest_hash(db'.cache) \notin {None, get_latest_hash(db.cache)}
          /\ call.detected = db.source => call'.etl = "none"]_vars

-----------------------------------------------------------------------------
(* src/src/api_client.py: GUSApiClient._request and the page loops of      *)
(* _paginate and get_data_by_variable.  In SpecApi pc[1] is the method the *)
(* client is inside and loc[1] holds that method's local variables; the    *)
(* server answers each request as it likes.                                *)

\* config.api.retry_count
retry_count == 3

\* what session.get can give: a response with a status code (its JSON body
\* for a success), or status 0 for a RequestException without a response
\* (timeout, refused connection)
Response(status) == [status |-> status, body |-> IF status = 200 THEN Str(<<"json">>) ELSE None]
Responses == {Response(st) : st \in {0, 200, 404, 429, 500}}

\* session.get raised, or response.raise_for_status() does
RequestFails(response) == response.status = 0 \/ response.status >= 400

\* the except branch with "raise" taken at every failed attempt
RequestStepRaiseAtOnce(attempt, response) ==
    IF response.status = 429 THEN [next |-> "continue", ret |-> None]
    ELSE IF response.status = 404 THEN [next |-> "return", ret |-> None]
    ELSE IF RequestFails(response) THEN [next |-> "raise", ret |-> None]
    ELSE [next |-> "return", ret |-> response.body]

\* one pass of the for loop of _request
RequestStep(attempt, response) ==
    IF response.status = 429 THEN [next |-> "continue", ret |-> None]
    ELSE IF response.status = 404 THEN [next |-> "return", ret |-> None]
    ELSE IF RequestFails(response)
    THEN IF attempt < retry_count - 1 THEN [next |-> "continue", ret |-> None]
         ELSE [next |-> "raise", ret |-> None]
    ELSE [next |-> "return", ret |-> response.body]

\* what a call of _request can give a page loop: None, the exception, or a
\* JSON body, with or without the "results" key (results: how many records
\* the page holds) and with or without "totalRecords"
PageBody(has_results, results, totalRecords) ==
    [tag |-> "dict", has_results |-> has_results, results |-> results,
     totalRecords |-> totalRecords]

PageAnswers ==
    {None, [tag |-> "raises"]}
        \cup {PageBody(FALSE, 0, Absent)}
        \cup {PageBody(TRUE, n, t) : n \in 0..PageSize,
                                     t \in {Absent} \cup {Num(k) : k \in 0..MaxTotal}}

\* "not response or 'results' not in response"
NoResults(response) == response.tag # "dict" \/ ~response.has_results

\* response.get("totalRecords", 0)
TotalRecords(response) == GetOr(response.totalRecords, Num(0)).i

\* the test that ends the loop of _paginate after a page was added
PaginateEnds(page, all_results, response) ==
    all_results >= TotalRecords(response)

\* the test that ends the loop of get_data_by_variable
DataByVariableEnds(page, all_data, response) ==
    LET fetched == (page + 1) * PageSize
    IN  fetched >= TotalRecords(response) \/ response.results < PageSize

ApiLoc(method) == [method |-> method, attempt |-> 0, responses |-> <<>>,
                   page |-> 0, fetched |-> 0]

InitApi ==
    /\ db = EmptyDb
    /\ pc = [p \in Procs |-> "idle"]
    /\ loc = [p \in Procs |-> ApiLoc("none")]
    /\ errors = <<>>
    /\ call = [op |-> "none"]
    /\ ncalls = 0

\* a method of the client is called
ApiCall ==
    /\ pc[1] = "idle"
    /\ ncalls < MaxCalls
    /\ \E method \in {"_request", "_paginate", "get_data_by_variable"} :
          /\ pc' = [pc EXCEPT ![1] = method]
          /\ loc' = [loc EXCEPT ![1] = ApiLoc(method)]
    /\ ncalls' = ncalls + 1
    /\ UNCHANGED <<db, errors, call>>

\* one attempt of _request
Attempt ==
    /\ pc[1] = "_request"
    /\ \E response \in Responses :
          LET l == loc[1]
              step == RequestStep(l.attempt, response)
              responses == Append(l.responses, response)
              exhausted == step.next = "continue" /\ l.attempt + 1 = retry_count
          IN  IF step.next = "continue" /\ ~exhausted
              THEN /\ loc' = [loc EXCEPT ![1].attempt = @ + 1, ![1].responses = responses]
                   /\ UNCHANGED <<pc, call>>
              ELSE /\ pc' = [pc EXCEPT ![1] = "idle"]
                   /\ loc' = [loc EXCEPT ![1] = ApiLoc("none")]
                   /\ call' = [op |-> "_request",
                               responses |-> responses,
                               outcome |-> IF step.next = "raise" THEN "raised"
                                           ELSE "returned",
                               ret |-> step.ret]
    /\ UNCHANGED <<db, errors, ncalls>>

\* the rest of one pass of a page loop once the request was answered: the
\* loop ends with the records fetched, or goes on with page += 1
PagePass(method, response, fetched, ends) ==
    IF ends
    THEN /\ pc' = [pc EXCEPT ![1] = "idle"]
         /\ loc' = [loc EXCEPT ![1] = ApiLoc("none")]
         /\ call' = [op |-> method,
                     requests |-> loc[1].page + 1,
                     outcome |-> IF response.tag = "raises" THEN "raised"
                                 ELSE "returned",
                     ret |-> fetched]
    ELSE /\ loc' = [loc EXCEPT ![1].page = @ + 1, ![1].fetched = fetched]
         /\ UNCHANGED <<pc, call>>

\* len(all_results) after the page of the response was added
Extended(all_results, response) ==
    IF NoResults(response) THEN all_results ELSE all_results + response.results

\* one pass of the while loop of _paginate
PaginatePage ==
    /\ pc[1] = "_paginate"
    /\ loc[1].page < MaxPages
    /\ \E response \in PageAnswers :
          LET all_results == Extended(loc[1].fetched, response)
          IN  PagePass("_paginate", response, all_results,
                       \/ NoResults(response)
                       \/ PaginateEnds(loc[1].page, all_results, response))
    /\ UNCHANGED <<db, errors, ncalls>>

\* one pass of the while loop of get_data_by_variable, for one year
DataByVariablePage ==
    /\ pc[1] = "get_data_by_variable"
    /\ loc[1].page < MaxPages
    /\ \E response \in PageAnswers :
          LET all_data == Extended(loc[1].fetched, response)
          IN  PagePass("get_data_by_variable", response, all_data,
                       \/ NoResults(response)
                       \/ DataByVariableEnds(loc[1].page, all_data, response))
    /\ UNCHANGED <<db, errors, ncalls>>

NextApi == ApiCall \/ Attempt \/ PaginatePage \/ DataByVariablePage

SpecApi == InitApi /\ [][NextApi]_vars

IsSuccess(response) == ~RequestFails(response)

C30_PageLoopsEnd ==
    [][\A method \in {"_paginate", "get_data_by_variable"} :
          (pc[1] = method /\ pc'[1] = method) =>
              /\ loc'[1].page = loc[1].page + 1
              /\ loc'[1].fetched > loc[1].fetched
              /\ loc'[1].page <= MaxTotal]_vars

=============================================================================
